---------------------------- MODULE Spec2Model ----------------------------
(***************************************************************************)
(* A model of estimate-generator-cli: the command-line run (index.js), the *)
(* HTML builder (lib/template.js), the replacement arguments               *)
(* (lib/replacement.js), the table validation and the totals               *)
(* (lib/validation.js), the value utilities (lib/utils.js) and the table   *)
(* markup (lib/table.js).                                                  *)
(*                                                                         *)
(* JavaScript values are records [t, n, d, s]:                             *)
(*   t = "undefined" | "null" | "nan" | "inf" | "num" | "str"              *)
(*   "num": the rational n/d in lowest terms, d > 0                        *)
(*   "inf": n = 1 for Infinity, n = -1 for -Infinity                       *)
(*   "str": s is the string, a sequence of one-character strings           *)
(* Numbers are exact rationals: the rounding of IEEE doubles and the       *)
(* sign of zero are not modelled.                                          *)
(***************************************************************************)
EXTENDS Integers, Sequences, FiniteSets, TLC

-----------------------------------------------------------------------------
(* JavaScript values *)

JSUndef == [t |-> "undefined", n |-> 0, d |-> 1, s |-> <<>>]

JSNull == [t |-> "null", n |-> 0, d |-> 1, s |-> <<>>]

JSNaN == [t |-> "nan", n |-> 0, d |-> 1, s |-> <<>>]

JSInf(sign) == [t |-> "inf", n |-> sign, d |-> 1, s |-> <<>>]

JSStr(chars) == [t |-> "str", n |-> 0, d |-> 1, s |-> chars]

Abs(x) == IF x < 0 THEN -x ELSE x

RECURSIVE GCD(_, _)
GCD(a, b) == IF b = 0 THEN a ELSE GCD(b, a % b)

\* The number n/d (d > 0) in lowest terms.
JSNum(n, d) ==
  LET g == GCD(Abs(n), d)
  IN  [t |-> "num", n |-> n \div g, d |-> d \div g, s |-> <<>>]

JSInt(n) == JSNum(n, 1)

IsNumeric(v) == v.t \in {"nan", "inf", "num"}

\* Number.isNaN: true of the number NaN only (null, undefined, strings: false).
NumberIsNaN(v) == v.t = "nan"

\* Number.isInteger
NumberIsInteger(v) == v.t = "num" /\ v.d = 1

NumSign(v) == IF v.n > 0 THEN 1 ELSE IF v.n < 0 THEN -1 ELSE 0

\* a + b on numbers
NumAdd(a, b) ==
  IF a.t = "nan" \/ b.t = "nan" THEN JSNaN
  ELSE IF a.t = "inf" /\ b.t = "inf"
       THEN (IF a.n = b.n THEN a ELSE JSNaN)
  ELSE IF a.t = "inf" THEN a
  ELSE IF b.t = "inf" THEN b
  ELSE JSNum(a.n * b.d + b.n * a.d, a.d * b.d)

NumNeg(a) ==
  IF a.t = "nan" THEN JSNaN
  ELSE IF a.t = "inf" THEN JSInf(-a.n)
  ELSE JSNum(-a.n, a.d)

\* a - b on numbers
NumSub(a, b) == NumAdd(a, NumNeg(b))

\* a * b on numbers: Infinity * 0 is NaN
NumMul(a, b) ==
  IF a.t = "nan" \/ b.t = "nan" THEN JSNaN
  ELSE IF a.t = "inf" \/ b.t = "inf"
       THEN (IF NumSign(a) = 0 \/ NumSign(b) = 0 THEN JSNaN
             ELSE JSInf(NumSign(a) * NumSign(b)))
  ELSE JSNum(a.n * b.n, a.d * b.d)

\* a / k for a positive integer literal k
NumDivInt(a, k) ==
  IF a.t = "nan" THEN JSNaN
  ELSE IF a.t = "inf" THEN a
  ELSE JSNum(a.n, a.d * k)

-----------------------------------------------------------------------------
(* Strings: parseFloat, parseInt and the ToNumber conversion *)

Digits == {"0", "1", "2", "3", "4", "5", "6", "7", "8", "9"}

DigitVal(c) ==
  CASE c = "0" -> 0 [] c = "1" -> 1 [] c = "2" -> 2 [] c = "3" -> 3
    [] c = "4" -> 4 [] c = "5" -> 5 [] c = "6" -> 6 [] c = "7" -> 7
    [] c = "8" -> 8 [] c = "9" -> 9

DigitChar(k) ==
  CASE k = 0 -> "0" [] k = 1 -> "1" [] k = 2 -> "2" [] k = 3 -> "3"
    [] k = 4 -> "4" [] k = 5 -> "5" [] k = 6 -> "6" [] k = 7 -> "7"
    [] k = 8 -> "8" [] k = 9 -> "9"

IsSpace(c) == c = " "

InfinityWord == <<"I", "n", "f", "i", "n", "i", "t", "y">>

\* the first index at or after i that holds no white space (Len(s)+1: none)
RECURSIVE SkipSpaces(_, _)
SkipSpaces(s, i) ==
  IF i <= Len(s) /\ IsSpace(s[i]) THEN SkipSpaces(s, i + 1) ELSE i

\* the number of consecutive digits of s from index i on
RECURSIVE DigitRun(_, _)
DigitRun(s, i) ==
  IF i <= Len(s) /\ s[i] \in Digits THEN 1 + DigitRun(s, i + 1) ELSE 0

\* the value of the k digits of s from index i on
RECURSIVE DigitsValue(_, _, _)
DigitsValue(s, i, k) ==
  IF k = 0 THEN 0
  ELSE 10 * DigitsValue(s, i, k - 1) + DigitVal(s[i + k - 1])

RECURSIVE Pow10(_)
Pow10(k) == IF k = 0 THEN 1 ELSE 10 * Pow10(k - 1)

\* whether word w stands in s at index i
StartsAt(s, i, w) ==
  /\ i + Len(w) - 1 <= Len(s)
  /\ \A k \in 1..Len(w) : s[i + k - 1] = w[k]

\* The longest decimal literal (digits, an optional point and fraction; no
\* exponent part) of s from index i on: [ok, val, next], next the index
\* after it.
DecimalPrefix(s, i) ==
  LET ni == DigitRun(s, i)
      hasDot == i + ni <= Len(s) /\ s[i + ni] = "."
      nf == IF hasDot THEN DigitRun(s, i + ni + 1) ELSE 0
      iv == DigitsValue(s, i, ni)
      fv == DigitsValue(s, i + ni + 1, nf)
  IN  IF ni = 0 /\ nf = 0
      THEN [ok |-> FALSE, val |-> JSNaN, next |-> i]
      ELSE [ok |-> TRUE,
            val |-> JSNum(iv * Pow10(nf) + fv, Pow10(nf)),
            next |-> IF hasDot THEN i + ni + 1 + nf ELSE i + ni]

\* the sign at index i: [sign, next]
SignAt(s, i) ==
  IF i <= Len(s) /\ s[i] = "-" THEN [sign |-> -1, next |-> i + 1]
  ELSE IF i <= Len(s) /\ s[i] = "+" THEN [sign |-> 1, next |-> i + 1]
  ELSE [sign |-> 1, next |-> i]

\* parseFloat of a string: leading white space, a sign, then Infinity or the
\* longest decimal literal; whatever follows is ignored; NaN when there is
\* no such prefix.
ParseFloatStr(s) ==
  LET i0 == SkipSpaces(s, 1)
      sg == SignAt(s, i0)
      dp == DecimalPrefix(s, sg.next)
  IN  IF StartsAt(s, sg.next, InfinityWord) THEN JSInf(sg.sign)
      ELSE IF dp.ok THEN NumMul(JSInt(sg.sign), dp.val)
      ELSE JSNaN

\* parseFloat(v): a number converts to its string and back, unchanged;
\* null, undefined: parseFloat("null"), parseFloat("undefined") are NaN.
ParseFloat(v) ==
  IF v.t = "str" THEN ParseFloatStr(v.s)
  ELSE IF IsNumeric(v) THEN v
  ELSE JSNaN

\* parseInt(s, 10) of a string: leading white space, a sign, the longest run
\* of digits; NaN when there is no digit.
ParseIntStr(s) ==
  LET i0 == SkipSpaces(s, 1)
      sg == SignAt(s, i0)
      nd == DigitRun(s, sg.next)
  IN  IF nd = 0 THEN JSNaN
      ELSE JSInt(sg.sign * DigitsValue(s, sg.next, nd))

\* parseInt(v, 10): a finite number is read from its decimal string, which
\* truncates it toward zero.
ParseInt(v) ==
  IF v.t = "str" THEN ParseIntStr(v.s)
  ELSE IF v.t = "num"
       THEN JSInt(NumSign(v) * (Abs(v.n) \div v.d))
  ELSE JSNaN

\* the last index at or before i that holds no white space (0: none)
RECURSIVE SkipSpacesBack(_, _)
SkipSpacesBack(s, i) ==
  IF i >= 1 /\ IsSpace(s[i]) THEN SkipSpacesBack(s, i - 1) ELSE i

\* String.prototype.trim
Trim(s) ==
  LET white(c) == IsSpace(c) \/ c = "\n"
      first == IF \E k \in 1..Len(s) : ~white(s[k])
               THEN CHOOSE k \in 1..Len(s) :
                      ~white(s[k]) /\ \A j \in 1..(k - 1) : white(s[j])
               ELSE Len(s) + 1
      last == IF \E k \in 1..Len(s) : ~white(s[k])
              THEN CHOOSE k \in 1..Len(s) :
                     ~white(s[k]) /\ \A j \in (k + 1)..Len(s) : white(s[j])
              ELSE 0
  IN  SubSeq(s, first, last)

\* ToNumber of a string (what *, - and > apply to a string operand): the
\* whole trimmed string must be a numeric literal; the empty string is 0.
StringToNumber(s) ==
  LET i0 == SkipSpaces(s, 1)
      iN == SkipSpacesBack(s, Len(s))
      sg == SignAt(s, i0)
      dp == DecimalPrefix(s, sg.next)
  IN  IF i0 > iN THEN JSInt(0)
      ELSE IF StartsAt(s, sg.next, InfinityWord)
           THEN (IF sg.next + Len(InfinityWord) - 1 = iN
                 THEN JSInf(sg.sign) ELSE JSNaN)
      ELSE IF dp.ok /\ dp.next = iN + 1 THEN NumMul(JSInt(sg.sign), dp.val)
      ELSE JSNaN

\* ToNumber(v)
ToNumber(v) ==
  IF v.t = "str" THEN StringToNumber(v.s)
  ELSE IF v.t = "null" THEN JSInt(0)
  ELSE IF v.t = "undefined" THEN JSNaN
  ELSE v

\* a * b
JSMul(a, b) == NumMul(ToNumber(a), ToNumber(b))

\* a + b where neither operand is a string
JSPlus(a, b) == NumAdd(ToNumber(a), ToNumber(b))

\* a - b
JSMinus(a, b) == NumSub(ToNumber(a), ToNumber(b))

\* a > 0
JSGtZero(a) ==
  LET x == ToNumber(a)
  IN  (x.t = "num" /\ x.n > 0) \/ (x.t = "inf" /\ x.n > 0)

\* a value is falsy: undefined, null, "", 0, NaN
JSFalsy(v) ==
  \/ v.t \in {"undefined", "null", "nan"}
  \/ (v.t = "str" /\ v.s = <<>>)
  \/ (v.t = "num" /\ v.n = 0)

-----------------------------------------------------------------------------
(* lib/utils.js *)

isEmpty(value) ==
  value.t \in {"null", "undefined"} \/ (value.t = "str" /\ value.s = <<>>)

\* a cleaning that converts the whole string, as Number(price) does
cleanPriceWhole(price) == IF isEmpty(price) THEN JSNull ELSE ToNumber(price)

cleanPrice(price) == IF isEmpty(price) THEN JSNull ELSE ParseFloat(price)

cleanNumber(num) == IF isEmpty(num) THEN JSNull ELSE ParseInt(num)

\* a check of the value alone
ValueIsNaN(value, percent) == NumberIsNaN(value)

\* calculatePercentage throws when either argument is the number NaN
calculatePercentageThrows(value, percent) ==
  NumberIsNaN(value) \/ NumberIsNaN(percent)

\* calculatePercentage's result when it does not throw: (value * percent) / 100
calculatePercentage(value, percent) == NumDivInt(JSMul(value, percent), 100)

UpperLetters == <<"A", "B", "C", "D", "E", "F", "G", "H", "I", "J", "K", "L", "M",
                  "N", "O", "P", "Q", "R", "S", "T", "U", "V", "W", "X", "Y", "Z">>

LowerLetters == <<"a", "b", "c", "d", "e", "f", "g", "h", "i", "j", "k", "l", "m",
                  "n", "o", "p", "q", "r", "s", "t", "u", "v", "w", "x", "y", "z">>

ToLowerChar(c) ==
  IF \E k \in 1..Len(UpperLetters) : UpperLetters[k] = c
  THEN LowerLetters[CHOOSE k \in 1..Len(UpperLetters) : UpperLetters[k] = c]
  ELSE c

\* String.prototype.toLowerCase
ToLowerCase(s) == [k \in 1..Len(s) |-> ToLowerChar(s[k])]

\* The currency table, in its order. A symbol is a string; the one-character
\* strings "U+00A3" ... stand for the non-ASCII signs of the source.
CURRENCIES ==
  << [code |-> <<"u", "s", "d">>, symbol |-> <<"$">>],
     [code |-> <<"a", "u", "d">>, symbol |-> <<"$">>],
     [code |-> <<"g", "b", "p">>, symbol |-> <<"U+00A3">>],
     [code |-> <<"e", "u", "r">>, symbol |-> <<"U+20AC">>],
     [code |-> <<"i", "n", "r">>, symbol |-> <<"U+20B9">>],
     [code |-> <<"b", "r", "l">>, symbol |-> <<"R", "$">>],
     [code |-> <<"c", "a", "d">>, symbol |-> <<"$">>],
     [code |-> <<"h", "k", "d">>, symbol |-> <<"$">>],
     [code |-> <<"i", "l", "s">>, symbol |-> <<"U+20AA">>],
     [code |-> <<"j", "p", "y">>, symbol |-> <<"U+00A5">>],
     [code |-> <<"m", "x", "n">>, symbol |-> <<"$">>],
     [code |-> <<"t", "w", "d">>, symbol |-> <<"N", "T", "$">>],
     [code |-> <<"n", "z", "d">>, symbol |-> <<"$">>],
     [code |-> <<"p", "h", "p">>, symbol |-> <<"P">>],
     [code |-> <<"s", "g", "d">>, symbol |-> <<"$">>],
     [code |-> <<"t", "h", "b">>, symbol |-> <<"U+0E3F">>],
     [code |-> <<"k", "e", "s">>, symbol |-> <<"K", "s", "h">>],
     [code |-> <<"n", "g", "n">>, symbol |-> <<"U+20A6">>] >>

\* getCurrencySymbol throws a TypeError when the code is no string: it has
\* no toLowerCase method.
getCurrencySymbolThrows(currencyCode) == currencyCode.t # "str"

\* Every entry of the table is a plain object: curr[code] is also truthy for
\* the lower-case names it inherits, and find then returns the first entry.
\* What is joined in front of the amount is that property as a string, here
\* one character.
InheritedProperties ==
  << [code |-> <<"c", "o", "n", "s", "t", "r", "u", "c", "t", "o", "r">>,
      symbol |-> <<"function Object() { [native code] }">>],
     [code |-> <<"_", "_", "p", "r", "o", "t", "o", "_", "_">>,
      symbol |-> <<"[object Object]">>] >>

\* the symbol of the first entry of a table with the given code, the empty
\* string when there is none
SymbolIn(entries, code) ==
  IF \A k \in 1..Len(entries) : entries[k].code # code THEN <<>>
  ELSE entries[CHOOSE k \in 1..Len(entries) :
                 /\ entries[k].code = code
                 /\ \A j \in 1..(k - 1) : entries[j].code # code].symbol

\* getCurrencySymbol: the symbol of the first entry for which curr[code] is
\* truthy, code the lower-cased currency code; the empty string when there
\* is none.
getCurrencySymbol(currencyCode) ==
  SymbolIn(InheritedProperties \o CURRENCIES, ToLowerCase(currencyCode.s))

\* the decimal digits of a natural number
RECURSIVE NatChars(_)
NatChars(k) ==
  IF k < 10 THEN <<DigitChar(k)>>
  ELSE Append(NatChars(k \div 10), DigitChar(k % 10))

\* Number.prototype.toFixed(2): the nearest multiple of 1/100, the larger one
\* of two equally near; the sign is kept in front.
ToFixed2(x) ==
  IF x.t = "nan" THEN <<"N", "a", "N">>
  ELSE IF x.t = "inf"
       THEN (IF x.n < 0 THEN <<"-">> ELSE <<>>) \o InfinityWord
  ELSE LET cents == (200 * Abs(x.n) + x.d) \div (2 * x.d)
       IN  (IF x.n < 0 THEN <<"-">> ELSE <<>>)
           \o NatChars(cents \div 100)
           \o <<".", DigitChar((cents % 100) \div 10), DigitChar(cents % 10)>>

\* Math.round: the nearest integer, the larger one of two equally near
MathRound(x) ==
  IF x.t = "num" THEN JSInt((2 * x.n + x.d) \div (2 * x.d)) ELSE x

formatPriceThrows(value, currency) == getCurrencySymbolThrows(currency)

\* formatPrice: [symbol, parseFloat(value).toFixed(2)].filter(Boolean).join("")
formatPrice(value, currency) ==
  JSStr(getCurrencySymbol(currency) \o ToFixed2(ParseFloat(value)))

-----------------------------------------------------------------------------
(* lib/validation.js                                                       *)
(* A table row is a function from its column keys to the cells. An error   *)
(* message is a sequence of lines, a line a record [text, index, arg]:     *)
(*   "Object <index>: <text>"           arg = "Object"                     *)
(*   "Missing expected column '<arg>'"  text = "Missing expected column"   *)
(* The keys of a row are strings (sequences of characters).                *)

MsgLine(text, index, arg) == [text |-> text, index |-> index, arg |-> arg]

\* obj[key], undefined when the object has no such key
Prop(obj, key) == IF key \in DOMAIN obj THEN obj[key] ELSE JSUndef

\* slugify(latinize(key), {lower: true}) of a header of letters and spaces:
\* trimmed, the spaces turned into hyphens, lower-cased
SlugifyKey(key) ==
  LET t == Trim(key)
  IN  [k \in 1..Len(t) |-> IF IsSpace(t[k]) THEN "-" ELSE ToLowerChar(t[k])]

\* lib/utils.js slugifyObjectKeys (no two keys of a row share a slug)
slugifyObjectKeys(obj) ==
  [slugifiedKey \in {SlugifyKey(key) : key \in DOMAIN obj} |->
     obj[CHOOSE key \in DOMAIN obj : SlugifyKey(key) = slugifiedKey]]

isValidAmount(amount) ==
  /\ amount.t # "null"
  /\ ~NumberIsNaN(cleanPrice(amount))
  /\ JSGtZero(amount)

validatePrice(value) == ~NumberIsNaN(cleanPrice(value))

validateQty(value) ==
  LET parsedValue == cleanNumber(value)
  IN  ~NumberIsNaN(parsedValue) /\ NumberIsInteger(parsedValue)

expectedColumns == <<<<"i", "t", "e", "m">>, <<"p", "r", "i", "c", "e">>, <<"q", "t", "y">>>>

\* a row lacking any expected column taken to lack them all
MissingColumnsAll(row) ==
  IF \E k \in 1..Len(expectedColumns) : expectedColumns[k] \notin DOMAIN row
  THEN expectedColumns ELSE <<>>

\* the expected columns a row lacks, in the order of expectedColumns
MissingColumns(row) ==
  SelectSeq(expectedColumns, LAMBDA column : column \notin DOMAIN row)

\* a validation that returns the rows as they came
validateColumnsOnly(data) ==
  IF \E i \in 1..Len(data) : MissingColumns(data[i]) # <<>>
  THEN [threw |-> TRUE,
        message |-> <<MsgLine("Missing expected column", 0,
                              MissingColumns(data[
                                CHOOSE i \in 1..Len(data) :
                                  /\ MissingColumns(data[i]) # <<>>
                                  /\ \A j \in 1..(i - 1) : MissingColumns(data[j]) = <<>>])[1])>>,
        rows |-> <<>>]
  ELSE [threw |-> FALSE, message |-> <<>>, rows |-> data]

\* a validation that adds to the missing column the first row's price when
\* that is invalid
validateColumnsAndPrice(data) ==
  IF \E i \in 1..Len(data) : MissingColumns(data[i]) # <<>>
  THEN [threw |-> TRUE,
        message |-> <<MsgLine("Missing expected column", 0,
                              MissingColumns(data[
                                CHOOSE i \in 1..Len(data) :
                                  /\ MissingColumns(data[i]) # <<>>
                                  /\ \A j \in 1..(i - 1) : MissingColumns(data[j]) = <<>>])[1])>>
                    \o (IF /\ Prop(data[1], <<"p", "r", "i", "c", "e">>).t # "undefined"
                           /\ ~validatePrice(Prop(data[1], <<"p", "r", "i", "c", "e">>))
                        THEN <<MsgLine("Invalid Price", 1, "Object")>>
                        ELSE <<>>),
        rows |-> <<>>]
  ELSE [threw |-> FALSE,
            message |-> <<>>,
            rows |-> [i \in 1..Len(data) |->
                        [column \in {expectedColumns[k] : k \in 1..Len(expectedColumns)}
                           |-> data[i][column]]]]

\* validateAndFilterColumns: [threw, message, rows]. The rows are mapped in
\* order and the expected columns tried in order; the first one missing
\* throws.
validateAndFilterColumns(data) ==
  IF \E i \in 1..Len(data) : MissingColumns(data[i]) # <<>>
  THEN [threw |-> TRUE,
        message |-> <<MsgLine("Missing expected column", 0,
                              MissingColumns(data[
                                CHOOSE i \in 1..Len(data) :
                                  /\ MissingColumns(data[i]) # <<>>
                                  /\ \A j \in 1..(i - 1) : MissingColumns(data[j]) = <<>>])[1])>>,
        rows |-> <<>>]
  ELSE [threw |-> FALSE,
            message |-> <<>>,
            rows |-> [i \in 1..Len(data) |->
                        [column \in {expectedColumns[k] : k \in 1..Len(expectedColumns)}
                           |-> data[i][column]]]]

\* error lines that stop at a row's first invalid cell
RowErrorsFirstOnly(row, index) ==
  IF Prop(row, <<"p", "r", "i", "c", "e">>).t # "undefined" /\ ~validatePrice(Prop(row, <<"p", "r", "i", "c", "e">>))
  THEN <<MsgLine("Invalid Price", index, "Object")>>
  ELSE IF Prop(row, <<"q", "t", "y">>).t # "undefined" /\ ~validateQty(Prop(row, <<"q", "t", "y">>))
  THEN <<MsgLine("Invalid Qty", index, "Object")>>
  ELSE <<>>

\* the error lines of one row of validateDataRows
RowErrors(row, index) ==
  (IF Prop(row, <<"p", "r", "i", "c", "e">>).t # "undefined" /\ ~validatePrice(Prop(row, <<"p", "r", "i", "c", "e">>))
   THEN <<MsgLine("Invalid Price", index, "Object")>> ELSE <<>>)
  \o
  (IF Prop(row, <<"q", "t", "y">>).t # "undefined" /\ ~validateQty(Prop(row, <<"q", "t", "y">>))
   THEN <<MsgLine("Invalid Qty", index, "Object")>> ELSE <<>>)

\* data.flatMap(RowErrors) over the rows 1..k
RECURSIVE DataRowErrors(_, _)
DataRowErrors(data, k) ==
  IF k = 0 THEN <<>>
  ELSE DataRowErrors(data, k - 1) \o RowErrors(data[k], k)

\* validateDataRows: [threw, message]
ErrorsOutcome(errors) == [threw |-> Len(errors) > 0, message |-> errors]

validateDataRows(data) == ErrorsOutcome(DataRowErrors(data, Len(data)))

\* the tax rate of calculateUnitTotals
UnitTaxRate(serviceTax) ==
  IF isValidAmount(serviceTax) THEN cleanPrice(serviceTax) ELSE JSInt(0)

PercentageError ==
  <<MsgLine("Both 'value' and 'percent' must be valid numbers.", 0, "")>>

CurrencyTypeError ==
  <<MsgLine("currencyCode.toLowerCase is not a function", 0, "TypeError")>>

\* a priceWithTax that is the tax alone
UnitPriceTaxOnly(priceWithoutTax, taxRate) ==
  calculatePercentage(priceWithoutTax, taxRate)

\* priceWithTax of calculateUnitTotals
UnitPriceWithTax(priceWithoutTax, taxRate) ==
  JSPlus(priceWithoutTax, calculatePercentage(priceWithoutTax, taxRate))

\* total (without tax) and totalWithTax of calculateUnitTotals
UnitTotal(qty, unitPrice) == JSMul(qty, unitPrice)

\* the row calculateUnitTotals returns for a row: the row's own keys, price
\* overwritten, and the computed ones
PricedRow(row, currency, priceWithoutTax, totalWithoutTax, priceWithTax, totalWithTax) ==
  [item |-> row[<<"i", "t", "e", "m">>],
   qty |-> row[<<"q", "t", "y">>],
   price |-> priceWithoutTax,
   total |-> totalWithoutTax,
   priceHtml |-> formatPrice(row[<<"p", "r", "i", "c", "e">>], currency),
   totalHtml |-> formatPrice(totalWithoutTax, currency),
   priceWithTax |-> priceWithTax,
   totalWithTax |-> totalWithTax,
   priceHtmlWithTax |-> formatPrice(priceWithTax, currency),
   totalHtmlWithTax |-> formatPrice(totalWithTax, currency)]

\* One row of calculateUnitTotals, its locals as parameters:
\* [threw, message, row]. calculatePercentage is called before the first
\* formatAmount.
UnitTotalsOf(row, currency, priceWithoutTax, taxRate, priceWithTax) ==
  IF calculatePercentageThrows(priceWithoutTax, taxRate)
  THEN [threw |-> TRUE, message |-> PercentageError, row |-> <<>>]
  ELSE IF formatPriceThrows(row[<<"p", "r", "i", "c", "e">>], currency)
  THEN [threw |-> TRUE, message |-> CurrencyTypeError, row |-> <<>>]
  ELSE [threw |-> FALSE,
        message |-> <<>>,
        row |-> PricedRow(row, currency, priceWithoutTax,
                          UnitTotal(row[<<"q", "t", "y">>], priceWithoutTax),
                          priceWithTax,
                          UnitTotal(row[<<"q", "t", "y">>], priceWithTax))]

UnitTotalsWith(row, currency, priceWithoutTax, taxRate) ==
  UnitTotalsOf(row, currency, priceWithoutTax, taxRate,
               UnitPriceWithTax(priceWithoutTax, taxRate))

UnitTotalsRow(row, currency, serviceTax) ==
  UnitTotalsWith(row, currency, cleanPrice(row[<<"p", "r", "i", "c", "e">>]), UnitTaxRate(serviceTax))

\* the outcome of data.map: the first row that throws ends it
MapOutcome(out) ==
  IF \E i \in 1..Len(out) : out[i].threw
  THEN [threw |-> TRUE,
        message |-> out[CHOOSE i \in 1..Len(out) :
                          out[i].threw /\ \A j \in 1..(i - 1) : ~out[j].threw].message,
        rows |-> <<>>]
  ELSE [threw |-> FALSE,
        message |-> <<>>,
        rows |-> [i \in 1..Len(out) |-> out[i].row]]

\* calculateUnitTotals: [threw, message, rows]
calculateUnitTotals(data, currency, serviceTax) ==
  MapOutcome([i \in 1..Len(data) |-> UnitTotalsRow(data[i], currency, serviceTax)])

\* calculateAmount of calculateInvoiceTotals (defaultValue = 0)
calculateAmount(value) ==
  IF isValidAmount(value) THEN cleanPrice(value) ELSE JSInt(0)

\* a reduce over the rows' totals without tax
RECURSIVE ReduceTotal(_, _)
ReduceTotal(tables, k) ==
  IF k = 0 THEN JSInt(0)
  ELSE JSPlus(ReduceTotal(tables, k - 1), tables[k].total)

\* tables.reduce((acc, row) => acc + row.totalWithTax, 0) over the rows 1..k
RECURSIVE ReduceTotalWithTax(_, _)
ReduceTotalWithTax(tables, k) ==
  IF k = 0 THEN JSInt(0)
  ELSE JSPlus(ReduceTotalWithTax(tables, k - 1), tables[k].totalWithTax)

\* a total that takes the discount as a percentage of the subtotal
InvoiceTotalDiscountPercent(subtotal, taxAmt, otherFeeAmt, discount) ==
  JSMinus(JSPlus(JSPlus(subtotal, taxAmt), otherFeeAmt),
          calculatePercentage(subtotal, discount))

\* the total of calculateInvoiceTotals
InvoiceTotal(subtotal, taxAmt, otherFeeAmt, discount) ==
  JSMinus(JSPlus(JSPlus(subtotal, taxAmt), otherFeeAmt), discount)

\* a record whose displayed amounts are all rounded to an integer
InvoiceTotalsAllRounded(currency, tax, otherFee, discount, subtotal, taxAmt, otherFeeAmt, total) ==
  [subtotal |-> subtotal,
   tax |-> tax,
   taxAmt |-> taxAmt,
   discount |-> discount,
   otherFee |-> otherFee,
   otherFeeAmt |-> otherFeeAmt,
   total |-> total,
   subtotalHtml |-> formatPrice(MathRound(subtotal), currency),
   taxAmtHtml |-> formatPrice(MathRound(taxAmt), currency),
   otherFeeAmtHtml |-> formatPrice(MathRound(otherFeeAmt), currency),
   discountHtml |-> formatPrice(MathRound(discount), currency),
   totalHtml |-> formatPrice(MathRound(total), currency)]

\* the record calculateInvoiceTotals returns
InvoiceTotalsRecord(currency, tax, otherFee, discount, subtotal, taxAmt, otherFeeAmt, total) ==
  [subtotal |-> subtotal,
   tax |-> tax,
   taxAmt |-> taxAmt,
   discount |-> discount,
   otherFee |-> otherFee,
   otherFeeAmt |-> otherFeeAmt,
   total |-> total,
   subtotalHtml |-> formatPrice(subtotal, currency),
   taxAmtHtml |-> formatPrice(taxAmt, currency),
   otherFeeAmtHtml |-> formatPrice(otherFeeAmt, currency),
   discountHtml |-> formatPrice(discount, currency),
   totalHtml |-> formatPrice(MathRound(total), currency)]

InvoiceTotalsWith(currency, tax, otherFee, discount, subtotal, taxAmt, otherFeeAmt) ==
  InvoiceTotalsRecord(currency, tax, otherFee, discount, subtotal, taxAmt, otherFeeAmt,
                      InvoiceTotal(subtotal, taxAmt, otherFeeAmt, discount))

\* calculateInvoiceTotals, its locals as parameters: [threw, message, totals]
InvoiceTotalsOf(currency, tax, otherFee, discount, subtotal) ==
  IF calculatePercentageThrows(subtotal, tax) \/ calculatePercentageThrows(subtotal, otherFee)
  THEN [threw |-> TRUE, message |-> PercentageError, totals |-> <<>>]
  ELSE IF formatPriceThrows(subtotal, currency)
  THEN [threw |-> TRUE, message |-> CurrencyTypeError, totals |-> <<>>]
  ELSE [threw |-> FALSE,
        message |-> <<>>,
        totals |-> InvoiceTotalsWith(currency, tax, otherFee, discount, subtotal,
                                     calculatePercentage(subtotal, tax),
                                     calculatePercentage(subtotal, otherFee))]

\* calculateInvoiceTotals: data is [tables, tax, otherFee, discount, currency]
calculateInvoiceTotals(data) ==
  InvoiceTotalsOf(data.currency,
                  calculateAmount(data.tax),
                  calculateAmount(data.otherFee),
                  calculateAmount(data.discount),
                  ReduceTotalWithTax(data.tables, Len(data.tables)))

-----------------------------------------------------------------------------
(* lib/table.js: markup is a string whose tags are single elements *)

\* Number to string, for a number with a finite decimal expansion
RECURSIVE FractionDigits(_, _)
FractionDigits(d, f) ==
  IF Pow10(f) % d = 0 THEN f ELSE FractionDigits(d, f + 1)

RECURSIVE PadZeros(_, _)
PadZeros(chars, width) ==
  IF Len(chars) >= width THEN chars ELSE PadZeros(<<"0">> \o chars, width)

NumberToString(x) ==
  IF x.t = "nan" THEN <<"N", "a", "N">>
  ELSE IF x.t = "inf" THEN (IF x.n < 0 THEN <<"-">> ELSE <<>>) \o InfinityWord
  ELSE LET f == FractionDigits(x.d, 0)
           scaled == (Abs(x.n) * Pow10(f)) \div x.d
           sign == IF x.n < 0 THEN <<"-">> ELSE <<>>
       IN  IF f = 0 THEN sign \o NatChars(scaled)
           ELSE sign \o NatChars(scaled \div Pow10(f)) \o <<".">>
                \o PadZeros(NatChars(scaled % Pow10(f)), f)

\* the table rows of generateTableBody for the items 1..k
RECURSIVE TableBodyRows(_, _)
TableBodyRows(data, k) ==
  IF k = 0 THEN <<>>
  ELSE TableBodyRows(data, k - 1)
       \o <<"<tr>", "<td>">> \o NatChars(k) \o <<"</td>", "<td class=text-start>">>
       \o data[k].item.s \o <<"</td>", "<td>">>
       \o data[k].priceHtmlWithTax.s \o <<"</td>", "<td>">>
       \o data[k].qty.s \o <<"</td>", "<td>">>
       \o data[k].totalHtmlWithTax.s \o <<"</td>", "</tr>">>

generateTableBody(data) ==
  <<"<tbody>">> \o TableBodyRows(data, Len(data)) \o <<"</tbody>">>

\* placeholder(label, value) of generateTableFoot
FootRow(label, value) ==
  <<"<tr>", "<td>", "</td>", "<td colspan=3 class=text-end>">> \o label
  \o <<":", "</td>", "<td>">> \o value \o <<"</td>", "</tr>">>

generateTableFoot(data) ==
  <<"<tfoot>">>
  \o (IF JSGtZero(data.subtotal)
      THEN FootRow(<<"Subtotal">>, data.subtotalHtml.s) ELSE <<>>)
  \o (IF JSGtZero(data.tax)
      THEN FootRow(<<"Tax (">> \o NumberToString(data.tax) \o <<"%)">>,
                   data.taxAmtHtml.s)
      ELSE <<>>)
  \o (IF JSGtZero(data.discount)
      THEN FootRow(<<"Discount">>, <<"-">> \o data.discountHtml.s) ELSE <<>>)
  \o (IF JSGtZero(data.otherFee)
      THEN FootRow(<<"Additional Fees (Paypal, Conversion, etc) (">>
                   \o NumberToString(data.otherFee) \o <<"%)">>,
                   data.otherFeeAmtHtml.s)
      ELSE <<>>)
  \o <<"<tr class=fw-bold>", "<td colspan=2>", "</td>",
       "<td colspan=2 class=text-end>", "Total:", "</td>", "<td>">>
  \o data.totalHtml.s \o <<"</td>", "</tr>", "</tfoot>">>

-----------------------------------------------------------------------------
(* lib/replacement.js *)

\* the least index q >= i with "}}" at q and q+1 and no line break from i to
\* q-1; 0 when there is none
RECURSIVE FindClose(_, _)
FindClose(html, i) ==
  IF i + 1 > Len(html) THEN 0
  ELSE IF html[i] = "}" /\ html[i + 1] = "}" THEN i
  ELSE IF html[i] = "\n" THEN 0
  ELSE FindClose(html, i + 1)

\* a replacement that drops the tokens it finds no value for
RECURSIVE ReplaceFromDropping(_, _, _)
ReplaceFromDropping(html, data, i) ==
  IF i > Len(html) THEN <<>>
  ELSE LET open == i + 1 <= Len(html) /\ html[i] = "{" /\ html[i + 1] = "{"
           q == IF open THEN FindClose(html, i + 2) ELSE 0
       IN  IF q = 0 THEN <<html[i]>> \o ReplaceFromDropping(html, data, i + 1)
           ELSE (IF SubSeq(html, i + 2, q - 1) \in DOMAIN data
                 THEN data[SubSeq(html, i + 2, q - 1)]
                 ELSE <<>>)
                \o ReplaceFromDropping(html, data, q + 2)

\* html.replace(/{{(.*?)}}/g, ...) from index i on: at the leftmost "{{"
\* that a "}}" follows on the same line, the shortest match is taken; its
\* name is looked up among the own keys of data.
RECURSIVE ReplaceFrom(_, _, _)
ReplaceFrom(html, data, i) ==
  IF i > Len(html) THEN <<>>
  ELSE LET open == i + 1 <= Len(html) /\ html[i] = "{" /\ html[i + 1] = "{"
           q == IF open THEN FindClose(html, i + 2) ELSE 0
       IN  IF q = 0 THEN <<html[i]>> \o ReplaceFrom(html, data, i + 1)
           ELSE LET placeholder == SubSeq(html, i + 2, q - 1)
                    match == SubSeq(html, i, q + 1)
                IN  (IF placeholder \in DOMAIN data THEN data[placeholder]
                     ELSE match)
                    \o ReplaceFrom(html, data, q + 2)

replacePlaceholders(html, data) == ReplaceFrom(html, data, 1)

\* value || 0
OrZero(value) == IF JSFalsy(value) THEN JSInt(0) ELSE value

\* extractInvoiceData, before the table is parsed: the cleaned front-matter
\* values. data is the front-matter, an absent key undefined.
InvoiceParams(data) ==
  [serviceTax |-> cleanPrice(OrZero(Prop(data, "serviceTax"))),
   tax |-> cleanPrice(OrZero(Prop(data, "tax"))),
   otherFee |-> cleanPrice(OrZero(Prop(data, "otherFee"))),
   discount |-> cleanPrice(OrZero(Prop(data, "discount"))),
   currency |-> IF JSFalsy(Prop(data, "currency")) THEN JSStr(<<"u", "s", "d">>)
                ELSE Prop(data, "currency")]

\* value ?? "": what is not null or undefined is kept
OrEmptyIfNullish(value) ==
  IF value.t \in {"undefined", "null"} THEN <<>>
  ELSE IF value.t = "str" THEN value.s
  ELSE NumberToString(value)

\* value || "", as the string it is used as
OrEmpty(value) ==
  IF JSFalsy(value) THEN <<>>
  ELSE IF value.t = "str" THEN value.s
  ELSE NumberToString(value)

BodyStyle ==
  <<"<style>body{margin:0 auto;width:1024px;transform:scale(4);transform-origin:left top;padding:35px}</style>">>

\* organizeInvoiceInfo, after the totals: the four invoice arguments
InvoiceArgs(tables, totals) ==
  (<<"b", "o", "d", "y", "S", "t", "y", "l", "e">> :> BodyStyle)
  @@ (<<"t", "a", "b", "l", "e", "B", "o", "d", "y">> :> generateTableBody(tables))
  @@ (<<"t", "a", "b", "l", "e", "F", "o", "o", "t">> :> generateTableFoot(totals))
  @@ (<<"t", "o", "t", "a", "l", "P", "r", "i", "c", "e">> :> totals.totalHtml.s)

\* the lines of a string: split("\n") from index i on, cur the line so far
RECURSIVE SplitLines(_, _, _)
SplitLines(s, i, cur) ==
  IF i > Len(s) THEN <<cur>>
  ELSE IF s[i] = "\n" THEN <<cur>> \o SplitLines(s, i + 1, <<>>)
  ELSE SplitLines(s, i + 1, Append(cur, s[i]))

IsBlank(line) == \A k \in 1..Len(line) : IsSpace(line[k]) \/ line[k] = "\n"

\* the non-blank lines of the trimmed string
NonBlankLines(inputString) ==
  SelectSeq(SplitLines(Trim(inputString), 1, <<>>), LAMBDA line : ~IsBlank(line))

\* lines.map(line => open + line + close).join("") over the lines 1..k
RECURSIVE WrapLines(_, _, _, _)
WrapLines(lines, k, open, close) ==
  IF k = 0 THEN <<>>
  ELSE WrapLines(lines, k - 1, open, close) \o <<open>> \o lines[k] \o <<close>>

\* lib/utils.js parseDescription
parseDescription(inputString) ==
  LET lines == NonBlankLines(inputString)
  IN  IF Len(lines) = 0 THEN <<>>
      ELSE <<"<div class=my-4>">> \o WrapLines(lines, Len(lines), "<p>", "</p>")
           \o <<"</div>">>

\* lib/utils.js parseNotes
parseNotes(inputString) ==
  LET lines == NonBlankLines(inputString)
  IN  IF Len(lines) = 0 THEN <<>>
      ELSE <<"<h6 class=fw-bold>", "Notes:", "</h6>", "<ol>">>
           \o WrapLines(lines, Len(lines), "<li>", "</li>") \o <<"</ol>">>

organizeDeveloperInfo(data) ==
  (<<"d", "e", "v", "N", "a", "m", "e">> :> OrEmpty(Prop(data, "devName")))
  @@ (<<"d", "e", "v", "E", "m", "a", "i", "l">> :> OrEmpty(Prop(data, "devEmail")))
  @@ (<<"d", "e", "v", "S", "k", "y", "p", "e">> :> OrEmpty(Prop(data, "devSkype")))
  @@ (<<"d", "e", "v", "T", "w", "i", "t", "t", "e", "r">> :> OrEmpty(Prop(data, "devTwitter")))
  @@ (<<"d", "e", "v", "W", "e", "b", "s", "i", "t", "e">> :> OrEmpty(Prop(data, "devWebsite")))
  @@ (<<"d", "e", "v", "L", "o", "c", "a", "t", "i", "o", "n">> :> OrEmpty(Prop(data, "devLocation")))

organizeClientInfo(data) ==
  (<<"c", "l", "i", "e", "n", "t", "N", "a", "m", "e">> :> OrEmpty(Prop(data, "clientName")))
  @@ (<<"c", "l", "i", "e", "n", "t", "C", "o", "m", "p", "a", "n", "y">> :> OrEmpty(Prop(data, "clientCompany")))
  @@ (<<"c", "l", "i", "e", "n", "t", "L", "o", "c", "a", "t", "i", "o", "n">> :> OrEmpty(Prop(data, "clientLocation")))
  @@ (<<"c", "l", "i", "e", "n", "t", "E", "m", "a", "i", "l">> :> OrEmpty(Prop(data, "clientEmail")))

\* organizeProjectInfo. The date library is outside the repository: a
\* formatted date is the string formatDate(<date>), the current date the
\* string currentDate().
organizeProjectInfo(data) ==
  (<<"t", "i", "t", "l", "e">> :> OrEmpty(Prop(data, "title")))
  @@ (<<"d", "e", "s", "c", "r", "i", "p", "t", "i", "o", "n">> :> parseDescription(OrEmpty(Prop(data, "description"))))
  @@ (<<"n", "o", "t", "e", "s">> :> parseNotes(OrEmpty(Prop(data, "notes"))))
  @@ (<<"d", "a", "t", "e">> :> IF JSFalsy(Prop(data, "date")) THEN <<"currentDate()">>
                  ELSE <<"formatDate(">> \o Prop(data, "date").s \o <<")">>)

\* arguments that take a key unknownField of the front-matter along
ContentArgsAndUnknown(data) ==
  IF "unknownField" \in DOMAIN data
  THEN (<<"u", "n", "k", "n", "o", "w", "n", "F", "i", "e", "l", "d">> :> OrEmpty(data["unknownField"]))
       @@ organizeDeveloperInfo(data) @@ organizeClientInfo(data)
       @@ organizeProjectInfo(data)
  ELSE organizeDeveloperInfo(data) @@ organizeClientInfo(data)
       @@ organizeProjectInfo(data)

\* getReplacementArgs, before organizeInvoiceInfo: the developer, client and
\* project arguments
ContentArgs(data) ==
  organizeDeveloperInfo(data) @@ organizeClientInfo(data) @@ organizeProjectInfo(data)

-----------------------------------------------------------------------------
(* lib/file.js and lib/template.js *)

\* a check that takes a directory named like a markdown file
isMarkdownPath(filePath) ==
  /\ filePath.exists
  /\ ToLowerCase(filePath.ext) = <<".", "m", "d">>

\* isValidMarkdownFile: a path is what the file system says of it,
\* [exists, isFile, ext]
isValidMarkdownFile(filePath) ==
  /\ filePath.exists
  /\ filePath.isFile
  /\ ToLowerCase(filePath.ext) = <<".", "m", "d">>

\* The HTML template after the style sheet is injected. The template file
\* is not part of the sources: this one holds a placeholder of every
\* argument group and one that no argument matches.
HtmlTemplate ==
  <<"<html>">> \o <<"{", "{", "b", "o", "d", "y", "S", "t", "y", "l", "e", "}", "}">> \o <<"<h1>">> \o <<"{", "{", "t", "i", "t", "l", "e", "}", "}">> \o <<"</h1>">>
  \o <<"{", "{", "c", "l", "i", "e", "n", "t", "N", "a", "m", "e", "}", "}">> \o <<"{", "{", "d", "e", "v", "N", "a", "m", "e", "}", "}">> \o <<"{", "{", "d", "a", "t", "e", "}", "}">>
  \o <<"{", "{", "d", "e", "s", "c", "r", "i", "p", "t", "i", "o", "n", "}", "}">> \o <<"<table>">> \o <<"{", "{", "t", "a", "b", "l", "e", "B", "o", "d", "y", "}", "}">>
  \o <<"{", "{", "t", "a", "b", "l", "e", "F", "o", "o", "t", "}", "}">> \o <<"</table>">> \o <<"{", "{", "t", "o", "t", "a", "l", "P", "r", "i", "c", "e", "}", "}">>
  \o <<"{", "{", "n", "o", "t", "e", "s", "}", "}">> \o <<"{", "{", "u", "n", "k", "n", "o", "w", "n", "F", "i", "e", "l", "d", "}", "}">> \o <<"</html>">>

-----------------------------------------------------------------------------
(* The inputs of a run *)

\* the most data rows of a table
MaxRows == 2

\* the command line: the path given (as the file system sees it) and --type
Paths ==
  { [exists |-> TRUE, isFile |-> TRUE, ext |-> <<".", "m", "d">>],
    [exists |-> TRUE, isFile |-> TRUE, ext |-> <<".", "M", "D">>],
    [exists |-> TRUE, isFile |-> TRUE, ext |-> <<".", "t", "x", "t">>],
    [exists |-> TRUE, isFile |-> FALSE, ext |-> <<".", "m", "d">>],
    [exists |-> FALSE, isFile |-> FALSE, ext |-> <<".", "m", "d">>] }

ImageTypes == {"png", "jpeg", "gif"}

Str(chars) == JSStr(chars)

\* the front-matter of examples/sample.md (its texts shortened)
SampleData ==
  [serviceTax |-> Str(<<"2", "0", "%">>), tax |-> Str(<<"1", "5", "%">>), otherFee |-> Str(<<"4", "%">>),
   discount |-> JSInt(30), currency |-> Str(<<"G", "B", "P">>),
   title |-> Str(<<"T">>), clientName |-> Str(<<"C">>), devName |-> Str(<<"D">>),
   date |-> Str(<<"2", "0", "2", "3", "-", "1", "0", "-", "2", "8">>),
   description |-> Str(<<"a", "\n", " ", "\n", "b">>),
   notes |-> Str(<<"n", "\n">>)]

\* the values a financial key of the front-matter takes: absent, empty, not
\* a number, negative, a percentage, a number, Infinity
ParamValues ==
  { JSUndef, Str(<<>>), Str(<<"a", "b", "c">>), JSInt(-5), Str(<<"2", "0", "%">>), JSInt(30),
    Str(<<"I", "n", "f", "i", "n", "i", "t", "y">>) }

\* more of them: an empty YAML value (null), zero, a fraction, a negative
\* string
ServiceTaxValues ==
  ParamValues \cup {JSNull, JSInt(0), JSNum(5, 2), Str(<<"-", "5", "%">>)}

\* the values the currency key takes: absent, a code of the table in upper
\* case, a code not in it, a number, the name of an inherited property
CurrencyValues ==
  { JSUndef, Str(<<"G", "B", "P">>), Str(<<"x", "y", "z">>), JSInt(5),
    Str(<<"c", "o", "n", "s", "t", "r", "u", "c", "t", "o", "r">>) }

\* the values a text key takes besides the sample's: absent, an empty YAML
\* value (null), an empty string, the numbers 0 and 5
TextValues == {JSUndef, JSNull, Str(<<>>), JSInt(0), JSInt(5)}

\* a front-matter holds the keys whose value is not undefined
WithKeys(rec) == [k \in {k \in DOMAIN rec : rec[k].t # "undefined"} |-> rec[k]]

\* keys of a front-matter that no organizer reads: one that the template has
\* a placeholder for, one named like an invoice argument
UnknownKeys == {"unknownField", "totalPrice"}

\* the sample, with one key varied or one more key
DataOneVaried ==
  { WithKeys([SampleData EXCEPT !.serviceTax = v]) : v \in ServiceTaxValues }
  \cup { WithKeys([SampleData EXCEPT !.currency = v]) : v \in CurrencyValues }
  \cup { WithKeys([SampleData EXCEPT !.title = v, !.date = w]) :
            v \in TextValues, w \in {JSUndef, JSNull} }
  \cup { (k :> Str(<<"U">>)) @@ WithKeys(SampleData) : k \in UnknownKeys }

\* no text keys, every financial key varied
DataAllVaried ==
  { WithKeys([serviceTax |-> a, tax |-> b, otherFee |-> c, discount |-> d]) :
      a \in ParamValues, b \in ParamValues, c \in ParamValues, d \in ParamValues }

FrontMatters == {WithKeys(SampleData)} \cup DataOneVaried \cup DataAllVaried

\* a row under the headers Item, Price, Qty of the sample
Row(price, qty) ==
  (<<"I", "t", "e", "m">> :> Str(<<"A">>)) @@ (<<"P", "r", "i", "c", "e">> :> Str(price)) @@ (<<"Q", "t", "y">> :> Str(qty))

\* rows of every kind: valid, invalid price, invalid quantity, both, empty
\* cells, cells with a numeric prefix only, columns missing, other headers,
\* a column more
WideRows ==
  { Row(<<"1", "0">>, <<"2">>), Row(<<"t", "e", "n">>, <<"2">>), Row(<<"1", "0">>, <<"x">>),
    Row(<<"t", "e", "n">>, <<"x">>), Row(<<>>, <<"2">>), Row(<<"1", "0">>, <<>>),
    Row(<<"I", "n", "f", "i", "n", "i", "t", "y">>, <<"2">>), Row(<<"1", "0">>, <<"2", ".", "5">>), Row(<<"1", "0">>, <<"2", "a", "b", "c">>),
    Row(<<"2", ".", "5">>, <<"0">>), Row(<<"-", "3">>, <<"-", "1">>),
    (<<"I", "t", "e", "m">> :> Str(<<"A">>)) @@ (<<"P", "r", "i", "c", "e">> :> Str(<<"1", "0">>)),
    (<<"I", "t", "e", "m">> :> Str(<<"A">>)) @@ (<<"Q", "t", "y">> :> Str(<<"2">>)),
    (<<"I", "t", "e", "m">> :> Str(<<"A">>)) @@ (<<"P", "r", "i", "c", "e">> :> Str(<<"t", "e", "n">>)),
    (<<"P", "r", "i", "c", "e">> :> Str(<<"1", "0">>)) @@ (<<"Q", "t", "y">> :> Str(<<"2">>)),
    (<<"I", "t", "e", "m">> :> Str(<<"A">>)) @@ (<<"U", "n", "i", "t", " ", "P", "r", "i", "c", "e">> :> Str(<<"1", "0">>)),
    (<<"I", "T", "E", "M">> :> Str(<<"A">>)) @@ (<<"p", "r", "i", "c", "e">> :> Str(<<"t", "e", "n">>))
      @@ (<<"Q", "T", "Y">> :> Str(<<"x">>)) @@ (<<"N", "o", "t", "e", "s">> :> Str(<<"n">>)) }

\* rows that pass the validation
NarrowRows ==
  { Row(<<"1", "0">>, <<"2">>), Row(<<"2", ".", "5">>, <<"2">>), Row(<<"I", "n", "f", "i", "n", "i", "t", "y">>, <<"2">>),
    Row(<<"1", "0">>, <<"0">>), Row(<<"I", "n", "f", "i", "n", "i", "t", "y">>, <<"0">>), Row(<<>>, <<"2", ".", "5">>),
    Row(<<"-", "3">>, <<"2">>) }

SeqsUpTo(S, n) == UNION {[1..k -> S] : k \in 0..n}

\* The tables html-table-to-json finds in the body (the first one is used):
\* none, or one of up to MaxRows rows keyed by the header texts. The
\* sample front-matter comes with every kind of row, a front-matter with one
\* key varied with the valid rows, the others with at most one row.
\* the table of examples/sample.md (every item shortened to "A")
SampleTable ==
  << Row(<<"1", "0", ".", "0", "0">>, <<"2">>), Row(<<"1", "5", ".", "0", "0">>, <<"3">>),
     Row(<<"2", "0", ".", "0", "0">>, <<"2">>), Row(<<"1", "2", ".", "0", "0">>, <<"4">>),
     Row(<<"8", ".", "0", "0">>, <<"3">>), Row(<<"2", "5", ".", "0", "0">>, <<"1">>) >>

ParsedTables(data) ==
  IF data = WithKeys(SampleData)
  THEN {<<>>, <<SampleTable>>} \cup {<<t>> : t \in SeqsUpTo(WideRows, MaxRows)}
  ELSE IF data \in DataOneVaried
  THEN {<<t>> : t \in SeqsUpTo(NarrowRows, MaxRows)}
  ELSE {<<t>> : t \in SeqsUpTo({Row(<<"1", "0">>, <<"2">>)}, 1)}

\* the documents read under a command line: every front-matter under the
\* first valid one, the sample under the others
FrontMattersFor(cmd) ==
  IF cmd.type = "png" /\ cmd.markdown.ext = <<".", "m", "d">>
  THEN FrontMatters
  ELSE {WithKeys(SampleData)}

TablesFor(cmd, data) ==
  IF cmd.type = "png" /\ cmd.markdown.ext = <<".", "m", "d">>
  THEN ParsedTables(data)
  ELSE {<<t>> : t \in SeqsUpTo({Row(<<"1", "0">>, <<"2">>)}, 1)}

-----------------------------------------------------------------------------
(* The run of the command line (index.js), step by step *)

VARIABLES
  pc,            \* the step the run is at
  argv,          \* [markdown, type]
  templateFiles, \* [html, css]: whether the template files exist
  spinner,       \* [status, text] of the console spinner
  data,          \* the front-matter (parsedData.data)
  args,          \* the replacement arguments built so far
  params,        \* extractInvoiceData: serviceTax, tax, otherFee, discount, currency
  jsonTables,    \* parseAndValidateTable: the tables found in the markdown
  table,         \* parseAndValidateTable: the first table, keys slugified
  filteredTable, \* the rows validateAndFilterColumns returned
  tables,        \* the rows calculateUnitTotals returned
  totals,        \* the record calculateInvoiceTotals returned
  html,          \* the markup buildHtml returned
  rasterCalls,   \* the calls of nodeHtmlToImage
  exitCode,      \* -1 while the process runs
  thrownBy,      \* history: the step whose error was caught
  rHtml, rData, rOut, rPc,  \* a call of replacePlaceholders on its own
  pValue, pPercent, pOut, pPc   \* a call of calculatePercentage on its own

vars ==
  <<pc, argv, templateFiles, spinner, data, args, params, table, filteredTable,
    tables, totals, html, rasterCalls, exitCode, thrownBy, jsonTables,
    rHtml, rData, rOut, rPc, pValue, pPercent, pOut, pPc>>

replaceVars == <<rHtml, rData, rOut, rPc>>

percentVars == <<pValue, pPercent, pOut, pPc>>

Unset == <<>>

Text(line) == <<MsgLine(line, 0, "")>>

Init ==
  /\ pc = "checkMarkdown"
  /\ argv \in [markdown : Paths, type : ImageTypes]
  /\ templateFiles \in [html : BOOLEAN, css : BOOLEAN]
  /\ spinner = [status |-> "spinning", text |-> Text("Image generation started...")]
  /\ data = Unset /\ args = Unset /\ params = Unset /\ table = Unset
  /\ filteredTable = Unset /\ tables = Unset /\ totals = Unset /\ html = Unset
  /\ rasterCalls = 0
  /\ exitCode = -1
  /\ thrownBy = "none"
  /\ jsonTables = Unset
  /\ rHtml = Unset /\ rData = Unset /\ rOut = Unset /\ rPc = "idle"
  /\ pValue = Unset /\ pPercent = Unset /\ pOut = Unset /\ pPc = "idle"

\* the catch block: spinner.fail(`Error: ${message}`); process.exit(1)
Throw(message) ==
  /\ pc' = "exit"
  /\ spinner' = [status |-> "fail", text |-> message]
  /\ exitCode' = 1
  /\ thrownBy' = pc

Continue(next) ==
  /\ pc' = next
  /\ exitCode' = exitCode
  /\ thrownBy' = thrownBy

\* index.js 39-47
CheckMarkdown ==
  /\ pc = "checkMarkdown"
  /\ IF ~isValidMarkdownFile(argv.markdown)
     THEN Throw(Text("Please provide a valid markdown file path."))
     ELSE /\ Continue("checkType")
          /\ spinner' = [spinner EXCEPT !.text = Text("Retrieving Markdown content...")]
  /\ UNCHANGED <<argv, templateFiles, data, args, params, table, filteredTable,
                 tables, totals, html, rasterCalls, jsonTables, replaceVars, percentVars>>

\* index.js 50-52
CheckType ==
  /\ pc = "checkType"
  /\ IF argv.type \notin {"png", "jpeg"}
     THEN Throw(Text("Invalid image type. Use 'png' or 'jpeg'."))
     ELSE Continue("getHtmlTemplate") /\ spinner' = spinner
  /\ UNCHANGED <<argv, templateFiles, data, args, params, table, filteredTable,
                 tables, totals, html, rasterCalls, jsonTables, replaceVars, percentVars>>

\* template.js 47-52 and 13-39: the file is read, then the template
GetHtmlTemplate ==
  /\ pc = "getHtmlTemplate"
  /\ IF ~templateFiles.html THEN Throw(Text("HTML template file is missing."))
     ELSE IF ~templateFiles.css THEN Throw(Text("CSS file is missing."))
     ELSE Continue("matter") /\ spinner' = spinner
  /\ UNCHANGED <<argv, templateFiles, data, args, params, table, filteredTable,
                 tables, totals, html, rasterCalls, jsonTables, replaceVars, percentVars>>

\* replacement.js 301-312: the front-matter is parsed; the developer, client
\* and project arguments
Matter ==
  /\ pc = "matter"
  /\ \E d \in FrontMattersFor(argv) :
       /\ data' = d
       /\ args' = ContentArgs(d)
  /\ Continue("extractInvoiceData")
  /\ UNCHANGED <<argv, templateFiles, spinner, params, table, filteredTable,
                 tables, totals, html, rasterCalls, jsonTables, replaceVars, percentVars>>

\* replacement.js 237-243
ExtractInvoiceData ==
  /\ pc = "extractInvoiceData"
  /\ params' = InvoiceParams(data)
  /\ Continue("parseTable")
  /\ UNCHANGED <<argv, templateFiles, spinner, data, args, table, filteredTable,
                 tables, totals, html, rasterCalls, jsonTables, replaceVars, percentVars>>

\* replacement.js 139-152
ParseTable ==
  /\ pc = "parseTable"
  /\ \E results \in TablesFor(argv, data) :
       /\ IF Len(results) = 0
          THEN /\ Throw(Text("Please provide an estimate table in the markdown content."))
               /\ table' = table
          ELSE /\ table' = [i \in 1..Len(results[1]) |-> slugifyObjectKeys(results[1][i])]
               /\ Continue("validateAndFilterColumns")
               /\ spinner' = spinner
       /\ jsonTables' = results
  /\ UNCHANGED <<argv, templateFiles, data, args, params, filteredTable,
                 tables, totals, html, rasterCalls, replaceVars, percentVars>>

ColumnsValidated(r) ==
  IF r.threw
  THEN Throw(r.message) /\ filteredTable' = filteredTable
  ELSE /\ filteredTable' = r.rows
       /\ Continue("validateDataRows")
       /\ spinner' = spinner

\* replacement.js 155
ValidateAndFilterColumns ==
  /\ pc = "validateAndFilterColumns"
  /\ ColumnsValidated(validateAndFilterColumns(table))
  /\ UNCHANGED <<argv, templateFiles, data, args, params, table,
                 tables, totals, html, rasterCalls, jsonTables, replaceVars, percentVars>>

RowsValidated(r) ==
  IF r.threw
  THEN Throw(r.message)
  ELSE Continue("calculateUnitTotals") /\ spinner' = spinner

\* replacement.js 158-161
ValidateDataRows ==
  /\ pc = "validateDataRows"
  /\ RowsValidated(validateDataRows(filteredTable))
  /\ UNCHANGED <<argv, templateFiles, data, args, params, table, filteredTable,
                 tables, totals, html, rasterCalls, jsonTables, replaceVars, percentVars>>

UnitTotalsCalculated(r) ==
  IF r.threw
  THEN Throw(r.message) /\ tables' = tables
  ELSE /\ tables' = r.rows
       /\ Continue("calculateInvoiceTotals")
       /\ spinner' = spinner

\* replacement.js 249
CalculateUnitTotals ==
  /\ pc = "calculateUnitTotals"
  /\ UnitTotalsCalculated(calculateUnitTotals(filteredTable, params.currency,
                                              cleanPrice(params.serviceTax)))
  /\ UNCHANGED <<argv, templateFiles, data, args, params, table, filteredTable,
                 totals, html, rasterCalls, jsonTables, replaceVars, percentVars>>

InvoiceTotalsCalculated(r) ==
  IF r.threw
  THEN Throw(r.message) /\ totals' = totals
  ELSE /\ totals' = r.totals
       /\ Continue("organizeInvoiceInfo")
       /\ spinner' = spinner

\* replacement.js 252-258 and 275
CalculateInvoiceTotals ==
  /\ pc = "calculateInvoiceTotals"
  /\ InvoiceTotalsCalculated(calculateInvoiceTotals(
        [tables |-> tables, tax |-> params.tax, otherFee |-> params.otherFee,
         discount |-> params.discount, currency |-> params.currency]))
  /\ UNCHANGED <<argv, templateFiles, data, args, params, table, filteredTable,
                 tables, html, rasterCalls, jsonTables, replaceVars, percentVars>>

\* replacement.js 278-291 and 318-326: the later spread wins a shared key
OrganizeInvoiceInfo ==
  /\ pc = "organizeInvoiceInfo"
  /\ args' = InvoiceArgs(tables, totals) @@ args
  /\ Continue("replacePlaceholders")
  /\ UNCHANGED <<argv, templateFiles, spinner, data, params, table, filteredTable,
                 tables, totals, html, rasterCalls, jsonTables, replaceVars, percentVars>>

\* template.js 58-60
ReplacePlaceholders ==
  /\ pc = "replacePlaceholders"
  /\ html' = replacePlaceholders(HtmlTemplate, args)
  /\ Continue("nodeHtmlToImage")
  /\ UNCHANGED <<argv, templateFiles, spinner, data, args, params, table,
                 filteredTable, tables, totals, rasterCalls, jsonTables, replaceVars, percentVars>>

\* index.js 58-66: the rasterizer is called and awaited
NodeHtmlToImage ==
  /\ pc = "nodeHtmlToImage"
  /\ rasterCalls' = rasterCalls + 1
  /\ spinner' = [spinner EXCEPT !.text = Text("Generating image from Markdown...")]
  /\ Continue("await")
  /\ UNCHANGED <<argv, templateFiles, data, args, params, table, filteredTable,
                 tables, totals, html, jsonTables, replaceVars, percentVars>>

\* index.js 69 and 76-79: the promise resolved
ImageCreated ==
  /\ pc = "await"
  /\ spinner' = [status |-> "succeed", text |-> Text("Image successfully created!")]
  /\ pc' = "exit"
  /\ exitCode' = 0
  /\ thrownBy' = thrownBy
  /\ UNCHANGED <<argv, templateFiles, data, args, params, table, filteredTable,
                 tables, totals, html, rasterCalls, jsonTables, replaceVars, percentVars>>

\* index.js 70-75: the promise rejected
ImageFailed ==
  /\ pc = "await"
  /\ Throw(Text("the rasterizer's error"))
  /\ UNCHANGED <<argv, templateFiles, data, args, params, table, filteredTable,
                 tables, totals, html, rasterCalls, jsonTables, replaceVars, percentVars>>

Next ==
  \/ CheckMarkdown
  \/ CheckType
  \/ GetHtmlTemplate
  \/ Matter
  \/ ExtractInvoiceData
  \/ ParseTable
  \/ ValidateAndFilterColumns
  \/ ValidateDataRows
  \/ CalculateUnitTotals
  \/ CalculateInvoiceTotals
  \/ OrganizeInvoiceInfo
  \/ ReplacePlaceholders
  \/ NodeHtmlToImage
  \/ ImageCreated
  \/ ImageFailed

Spec == Init /\ [][Next]_vars

-----------------------------------------------------------------------------
(* What a state says of the run *)

StageOrder ==
  <<"checkMarkdown", "checkType", "getHtmlTemplate", "matter", "extractInvoiceData",
    "parseTable", "validateAndFilterColumns", "validateDataRows",
    "calculateUnitTotals", "calculateInvoiceTotals", "organizeInvoiceInfo",
    "replacePlaceholders", "nodeHtmlToImage", "await">>

Rank(stage) == CHOOSE k \in 1..Len(StageOrder) : StageOrder[k] = stage

\* the step has run and thrown nothing
Passed(stage) ==
  IF pc = "exit"
  THEN thrownBy = "none" \/ (thrownBy # "none" /\ Rank(thrownBy) > Rank(stage))
  ELSE pc # "idle" /\ Rank(pc) > Rank(stage)

\* x >= 0 for a number x (false of NaN)
GeZero(x) == (x.t = "num" /\ x.n >= 0) \/ (x.t = "inf" /\ x.n > 0)

\* x > 0 for a number x (false of NaN)
GtZero(x) == (x.t = "num" /\ x.n > 0) \/ (x.t = "inf" /\ x.n > 0)

ColPrice == <<"p", "r", "i", "c", "e">>

ColQty == <<"q", "t", "y">>

ColItem == <<"i", "t", "e", "m">>

\* the numbers a validated row's cells stand for in the arithmetic: the
\* parsed price (an empty cell counts as 0) and the quantity cell as a number
PriceOf(row) == ToNumber(cleanPrice(row[ColPrice]))

QtyOf(row) == ToNumber(row[ColQty])

\* the service tax handed to calculateUnitTotals
ServiceTaxGiven == cleanPrice(params.serviceTax)

\* price + price * rate / 100
WithPercent(price, rate) == NumAdd(price, NumDivInt(NumMul(price, rate), 100))

\* Equations between amounts are read as "the value produced is the value of
\* the expression", so a NaN result equals a NaN expression.

\* The unit totals of row i agree with the rate given.
UnitTotalsAgree(i, rate) ==
  /\ tables[i].priceWithTax = WithPercent(PriceOf(filteredTable[i]), rate)
  /\ tables[i].totalWithTax = NumMul(QtyOf(filteredTable[i]), tables[i].priceWithTax)
  /\ tables[i].totalWithTax
       = NumMul(QtyOf(filteredTable[i]), WithPercent(PriceOf(filteredTable[i]), rate))
  /\ tables[i].total = NumMul(QtyOf(filteredTable[i]), PriceOf(filteredTable[i]))

NonNegativeRow(i) ==
  GeZero(QtyOf(filteredTable[i])) /\ GeZero(PriceOf(filteredTable[i]))

\* C1 as stated: for every validated row with qty >= 0 and price >= 0 and
\* every service tax, priceWithTax = price + price*serviceTax/100,
\* totalWithTax = qty * priceWithTax and total = qty * price, with the
\* service tax itself as the rate.  Fails for a service tax that is negative
\* or not a number, which the code replaces by 0.
C1_AsStated ==
  Passed("calculateUnitTotals") =>
    \A i \in 1..Len(tables) :
      NonNegativeRow(i) => UnitTotalsAgree(i, ServiceTaxGiven)

\* C1 amended: for every validated row with qty >= 0 and price >= 0 and every
\* service tax, priceWithTax = price + price*taxRate/100, totalWithTax =
\* qty * priceWithTax and total = qty * price, where taxRate is the service
\* tax when that is a number greater than 0 and 0 otherwise.
C1_UnitTotals ==
  Passed("calculateUnitTotals") =>
    \A i \in 1..Len(tables) :
      NonNegativeRow(i) =>
        UnitTotalsAgree(i, IF GtZero(ServiceTaxGiven) THEN ServiceTaxGiven ELSE JSInt(0))

\* a row of price 10 and quantity 2 under a service tax of 20 came out as
\* 12 a piece and 24 in all, 20 without tax
C1_Witness ==
  /\ Passed("calculateUnitTotals")
  /\ ServiceTaxGiven = JSInt(20)
  /\ \E i \in 1..Len(tables) :
       /\ NonNegativeRow(i)
       /\ PriceOf(filteredTable[i]) = JSInt(10)
       /\ tables[i].priceWithTax = JSInt(12)
       /\ tables[i].totalWithTax = JSInt(24)
       /\ tables[i].total = JSInt(20)

\* the sum of the first k totalWithTax values, from the left, starting at 0
LeftSum[k \in 0..Len(tables)] ==
  IF k = 0 THEN JSInt(0) ELSE NumAdd(LeftSum[k - 1], tables[k].totalWithTax)

\* C2: the subtotal calculateInvoiceTotals returns is the left-to-right sum
\* of the rows' totalWithTax values, starting from 0 (0 for no rows).
C2_Subtotal ==
  Passed("calculateInvoiceTotals") => totals.subtotal = LeftSum[Len(tables)]

\* two rows with different amounts were summed
C2_Witness ==
  /\ Passed("calculateInvoiceTotals")
  /\ Len(tables) = 2
  /\ tables[1].totalWithTax = JSInt(24)
  /\ tables[2].totalWithTax = JSInt(6)
  /\ tables[2].total = JSInt(5)
  /\ totals.subtotal = JSInt(30)

\* C3: in the record calculateInvoiceTotals returns, taxAmt = subtotal*tax/100,
\* otherFeeAmt = subtotal*otherFee/100 and total = subtotal + taxAmt +
\* otherFeeAmt - discount, with the tax, otherFee and discount of the record
\* (the discount an amount, not a percentage).
C3_InvoiceTotals ==
  Passed("calculateInvoiceTotals") =>
    /\ totals.taxAmt = NumDivInt(NumMul(totals.subtotal, totals.tax), 100)
    /\ totals.otherFeeAmt = NumDivInt(NumMul(totals.subtotal, totals.otherFee), 100)
    /\ totals.total
         = NumSub(NumAdd(NumAdd(totals.subtotal, totals.taxAmt), totals.otherFeeAmt),
                  totals.discount)

\* the sample's charges on a subtotal of 24: 15% tax, 4% fee, 30 off
C3_Witness ==
  /\ Passed("calculateInvoiceTotals")
  /\ totals.subtotal = JSInt(24)
  /\ totals.tax = JSInt(15) /\ totals.otherFee = JSInt(4) /\ totals.discount = JSInt(30)
  /\ totals.taxAmt = JSNum(18, 5)
  /\ totals.otherFeeAmt = JSNum(24, 25)
  /\ totals.total = JSNum(-36, 25)

\* the step has run, whether or not it threw
Ran(stage) == Passed(stage) \/ thrownBy = stage

\* A percentage or amount of the front-matter resolves to 0 in the cases the
\* claim lists: absent, empty, unparsable, or not greater than 0.
ResolvesToZero(raw) ==
  \/ raw.t \in {"undefined", "null"}
  \/ raw.t = "str" /\ raw.s = <<>>
  \/ ParseFloat(raw).t = "nan"
  \/ ~GtZero(ParseFloat(raw))

\* resolved is a finite number: 0 in the cases above, the number the
\* configured value parses to otherwise
ResolvedAsClaimed(raw, resolved) ==
  /\ resolved.t = "num"
  /\ resolved = (IF ResolvesToZero(raw) THEN JSInt(0) ELSE ParseFloat(raw))

\* C4 as stated: serviceTax, tax, otherFee and discount each resolve to 0
\* when the configured value is absent, empty, unparsable or <= 0, and
\* otherwise to the configured finite numeric value ("20%" gives 20).  Fails
\* for a configured value of Infinity, which resolves to Infinity.
C4_AsStated ==
  /\ Passed("extractInvoiceData") =>
       ResolvedAsClaimed(Prop(data, "serviceTax"), UnitTaxRate(ServiceTaxGiven))
  /\ Passed("calculateInvoiceTotals") =>
       /\ ResolvedAsClaimed(Prop(data, "tax"), totals.tax)
       /\ ResolvedAsClaimed(Prop(data, "otherFee"), totals.otherFee)
       /\ ResolvedAsClaimed(Prop(data, "discount"), totals.discount)

\* C5 as stated: validateDataRows accepts a table only if every row's price
\* cell parses as a finite number (so an empty price cell fails) and every
\* row's qty cell parses as a finite integer.  Fails for a row with an empty
\* price cell, and for a price of Infinity: both are accepted.
C5_AsStated ==
  Passed("validateDataRows") =>
    \A i \in 1..Len(filteredTable) :
      /\ ParseFloat(filteredTable[i][ColPrice]).t = "num"
      /\ ParseInt(filteredTable[i][ColQty]).t = "num"

\* the cells validateDataRows looks at and its validators reject: <<row, 1>>
\* a price, <<row, 2>> a quantity
InvalidCells ==
  {<<i, 1>> : i \in {j \in 1..Len(filteredTable) : ~validatePrice(filteredTable[j][ColPrice])}}
  \cup
  {<<i, 2>> : i \in {j \in 1..Len(filteredTable) : ~validateQty(filteredTable[j][ColQty])}}

\* "Object <i>: Invalid Price" or "Object <i>: Invalid Qty"
InvalidCellLine(cell) ==
  MsgLine(IF cell[2] = 1 THEN "Invalid Price" ELSE "Invalid Qty", cell[1], "Object")

\* validateDataRows has raised one error that lists exactly the given
\* cells, a line each, in row order and price before qty within a row; or
\* none, when there is no such cell
ListsExactly(cells) ==
  IF cells = {}
  THEN thrownBy # "validateDataRows"
  ELSE /\ thrownBy = "validateDataRows"
       /\ spinner.status = "fail"
       /\ Len(spinner.text) = Cardinality(cells)
       /\ \A cell \in cells :
            \E k \in 1..Len(spinner.text) : spinner.text[k] = InvalidCellLine(cell)
       /\ \A k \in 1..Len(spinner.text) :
            \E cell \in cells : spinner.text[k] = InvalidCellLine(cell)
       /\ \A a, b \in 1..Len(spinner.text) :
            a < b =>
              \/ spinner.text[a].index < spinner.text[b].index
              \/ /\ spinner.text[a].index = spinner.text[b].index
                 /\ spinner.text[a].text = "Invalid Price"
                 /\ spinner.text[b].text = "Invalid Qty"

\* the cells that are invalid by the rule of the specification: a price that
\* does not parse as a finite number, a quantity that does not parse as a
\* finite integer
UnparsableCells ==
  {<<i, 1>> : i \in {j \in 1..Len(filteredTable) :
                       ParseFloat(filteredTable[j][ColPrice]).t # "num"}}
  \cup
  {<<i, 2>> : i \in {j \in 1..Len(filteredTable) :
                       ParseInt(filteredTable[j][ColQty]).t # "num"}}

\* C6 as stated: when any cell is invalid, validateDataRows raises a single
\* error whose message has exactly one line per offending cell across all
\* rows, "Object <i>: Invalid Price" or "Object <i>: Invalid Qty" with i the
\* row's 1-based index, in row order and price before qty within a row; when
\* no cell is invalid, no error is raised.  Fails for an empty price cell and
\* for a price of Infinity, which get no line (the validators accept them).
C6_AsStated == Ran("validateDataRows") => ListsExactly(UnparsableCells)

\* C6, of the cells the validators reject: validateDataRows raises a single
\* error whose message has exactly one line per rejected cell across all
\* rows, "Object <i>: Invalid Price" or "Object <i>: Invalid Qty" with i the
\* row's 1-based index, in row order and price before qty within a row; when
\* no cell is rejected, no error is raised.
C6_OneErrorListsAll == Ran("validateDataRows") => ListsExactly(InvalidCells)

\* a second row with both cells invalid after a first with a bad quantity:
\* three lines in one error
C6_Witness ==
  /\ thrownBy = "validateDataRows"
  /\ Len(filteredTable) = 2
  /\ spinner.text = <<MsgLine("Invalid Qty", 1, "Object"),
                      MsgLine("Invalid Price", 2, "Object"),
                      MsgLine("Invalid Qty", 2, "Object")>>

\* the rows of the parsed table that lack an expected column
DeficientRows ==
  {i \in 1..Len(table) : \E column \in {ColItem, ColPrice, ColQty} : column \notin DOMAIN table[i]}

FirstDeficientRow == CHOOSE i \in DeficientRows : \A j \in DeficientRows : i <= j

\* C7: when any row, not only the first, lacks item, price or qty after the
\* headers are normalised, validateAndFilterColumns raises an error that
\* names a column missing from the (first) row that lacks one, and no line
\* items are produced; with no such row it raises none and keeps of every
\* row exactly the three columns.
C7_MissingColumn ==
  Ran("validateAndFilterColumns") =>
    IF DeficientRows = {}
    THEN /\ thrownBy # "validateAndFilterColumns"
         /\ Len(filteredTable) = Len(table)
         /\ \A i \in 1..Len(table) :
              /\ DOMAIN filteredTable[i] = {ColItem, ColPrice, ColQty}
              /\ \A column \in {ColItem, ColPrice, ColQty} :
                   filteredTable[i][column] = table[i][column]
    ELSE /\ thrownBy = "validateAndFilterColumns"
         /\ spinner.status = "fail"
         /\ Len(spinner.text) = 1
         /\ spinner.text[1].text = "Missing expected column"
         /\ spinner.text[1].arg \in {ColItem, ColPrice, ColQty}
         /\ spinner.text[1].arg \notin DOMAIN table[FirstDeficientRow]
         /\ filteredTable = Unset
         /\ tables = Unset
         /\ rasterCalls = 0

\* the second row has no qty, the first lacks nothing: the error names qty
C7_Witness ==
  /\ thrownBy = "validateAndFilterColumns"
  /\ Len(table) = 2
  /\ DeficientRows = {2}
  /\ ColItem \in DOMAIN table[2]
  /\ spinner.text = <<MsgLine("Missing expected column", 0, ColQty)>>
  /\ filteredTable = Unset

\* C8 as stated: a table with a header and no data rows is accepted:
\* extraction and validation raise no error, the line items are empty,
\* subtotal = 0, taxAmt = 0, otherFeeAmt = 0 and total = 0 - discount.  Fails
\* when tax or otherFee is configured as Infinity: the amount is 0 * Infinity
\* / 100, not a number, and so is the total.
C8_AsStated ==
  (Passed("parseTable") /\ table = <<>>) =>
    /\ thrownBy \notin {"validateAndFilterColumns", "validateDataRows"}
    /\ Passed("validateAndFilterColumns") => filteredTable = <<>>
    /\ Passed("calculateUnitTotals") => tables = <<>>
    /\ Passed("calculateInvoiceTotals") =>
         /\ totals.subtotal = JSInt(0)
         /\ totals.taxAmt = JSInt(0)
         /\ totals.otherFeeAmt = JSInt(0)
         /\ totals.total = NumSub(JSInt(0), totals.discount)

\* the path names an existing regular file with the extension .md, in any case
PathIsMarkdownFile(path) ==
  /\ path.exists
  /\ path.isFile
  /\ path.ext \in {<<".", c1, c2>> : c1 \in {"m", "M"}, c2 \in {"d", "D"}}

\* C9: the rasterizer is called at most once, and only after the path check,
\* the type check (png or jpeg) and buildHtml went through; when one of these
\* or the rasterizer fails, no success is reported, the spinner fails with
\* the error's message, the exit code is 1 and nothing runs after (no retry);
\* success is reported only for a run that called the rasterizer and threw
\* nothing.
C9_RasterizerGuarded ==
  /\ rasterCalls <= 1
  /\ rasterCalls = 1 =>
       /\ PathIsMarkdownFile(argv.markdown)
       /\ argv.type \in {"png", "jpeg"}
       /\ Passed("replacePlaceholders")
       /\ html # Unset
  /\ (pc # "checkMarkdown" /\ ~PathIsMarkdownFile(argv.markdown)) =>
       /\ thrownBy = "checkMarkdown"
       /\ spinner.text = Text("Please provide a valid markdown file path.")
  /\ (Ran("checkType") /\ argv.type \notin {"png", "jpeg"}) =>
       /\ thrownBy = "checkType"
       /\ spinner.text = Text("Invalid image type. Use 'png' or 'jpeg'.")
  /\ thrownBy = "await" =>
       /\ rasterCalls = 1
       /\ spinner.text = Text("the rasterizer's error")
  /\ thrownBy # "none" =>
       /\ pc = "exit"
       /\ exitCode = 1
       /\ spinner.status = "fail"
       /\ ~ENABLED Next
       /\ rasterCalls = (IF thrownBy = "await" THEN 1 ELSE 0)
  /\ spinner.status = "succeed" =>
       /\ thrownBy = "none"
       /\ rasterCalls = 1
       /\ exitCode = 0
       /\ pc = "exit"
  /\ exitCode = 0 => spinner.status = "succeed"

\* the rasterizer was called once and failed: the run ended with its
\* message and exit code 1
C9_Witness ==
  /\ thrownBy = "await"
  /\ rasterCalls = 1
  /\ exitCode = 1
  /\ spinner = [status |-> "fail", text |-> Text("the rasterizer's error")]

-----------------------------------------------------------------------------
(* replacePlaceholders called on its own: every template of a few pieces *)

MaxPieces == 6

\* what templates are made of: the two brace pairs, single braces, a letter
\* and a line break
TemplatePieces == {<<"{", "{">>, <<"}", "}">>, <<"{">>, <<"}">>, <<"t">>, <<"\n">>}

RECURSIVE Flatten(_)
Flatten(pieces) ==
  IF pieces = <<>> THEN <<>> ELSE Head(pieces) \o Flatten(Tail(pieces))

Templates == {Flatten(pieces) : pieces \in SeqsUpTo(TemplatePieces, MaxPieces)}

\* data records: one with the keys t and tt, the value of tt itself a token
\* and the value of t empty; one with the key t; one with no key
ReplaceDatas ==
  { (<<"t">> :> <<>>) @@ (<<"t", "t">> :> <<"{", "{", "t", "}", "}">>),
    (<<"t">> :> <<"X">>),
    [key \in {} |-> <<>>] }

InitReplace ==
  /\ pc = "idle"
  /\ argv = Unset /\ templateFiles = Unset /\ spinner = Unset
  /\ data = Unset /\ args = Unset /\ params = Unset /\ table = Unset
  /\ filteredTable = Unset /\ tables = Unset /\ totals = Unset /\ html = Unset
  /\ rasterCalls = 0
  /\ exitCode = -1
  /\ thrownBy = "none"
  /\ jsonTables = Unset
  /\ rHtml \in Templates
  /\ rData \in ReplaceDatas
  /\ rOut = Unset
  /\ rPc = "call"
  /\ pValue = Unset /\ pPercent = Unset /\ pOut = Unset /\ pPc = "idle"

\* replacement.js 114-130
CallReplacePlaceholders ==
  /\ rPc = "call"
  /\ rOut' = replacePlaceholders(rHtml, rData)
  /\ rPc' = "returned"
  /\ UNCHANGED <<rHtml, rData, pc, argv, templateFiles, spinner, data, args, params,
                 table, filteredTable, tables, totals, html, rasterCalls, exitCode,
                 thrownBy, jsonTables, percentVars>>

NextReplace == CallReplacePlaceholders

SpecReplace == InitReplace /\ [][NextReplace]_vars

\* a "{{" at p, a "}}" at q
OpensAt(h, p) == p + 1 <= Len(h) /\ h[p] = "{" /\ h[p + 1] = "{"

ClosesAt(h, q) == q + 1 <= Len(h) /\ h[q] = "}" /\ h[q + 1] = "}"

\* where the token opened at p closes: the first "}}" after its "{{", when
\* no line break comes before it (at most one such place)
TokenCloses(h, p) ==
  {q \in (p + 2)..Len(h) :
     /\ ClosesAt(h, q)
     /\ \A r \in (p + 2)..(q - 1) : h[r] # "\n" /\ ~ClosesAt(h, r)}

TokenClose(h, p) == CHOOSE q \in TokenCloses(h, p) : TRUE

\* the places where a token starts: a "{{" that closes and that lies in no
\* token started before it
TokenStarts(h) ==
  LET starts[p \in 0..Len(h)] ==
        IF p = 0 THEN {}
        ELSE IF /\ OpensAt(h, p)
                /\ TokenCloses(h, p) # {}
                /\ \A s \in starts[p - 1] : TokenClose(h, s) + 1 < p
             THEN starts[p - 1] \cup {p}
             ELSE starts[p - 1]
  IN  starts[Len(h)]

TokenName(h, p) == SubSeq(h, p + 2, TokenClose(h, p) - 1)

TokenText(h, p) == SubSeq(h, p, TokenClose(h, p) + 1)

\* what the output holds for position p of the template: at the start of a
\* token the value of its name, or the token itself when the data has no
\* such key; nothing for the rest of the token; the character elsewhere
OutputAt(h, d, starts, p) ==
  IF p \in starts
  THEN IF TokenName(h, p) \in DOMAIN d THEN d[TokenName(h, p)] ELSE TokenText(h, p)
  ELSE IF \E s \in starts : s < p /\ p <= TokenClose(h, s) + 1
  THEN <<>>
  ELSE <<h[p]>>

Substituted(h, d, starts) ==
  LET out[p \in 0..Len(h)] ==
        IF p = 0 THEN <<>> ELSE out[p - 1] \o OutputAt(h, d, starts, p)
  IN  out[Len(h)]

\* C10: replacePlaceholders returns (raising nothing) the template with
\* every token {{name}} whose name is an own key of the data replaced by
\* that key's value, every token whose name is no key left as it is, and
\* the text outside the tokens unchanged; a token runs from a "{{" to the
\* first "}}" after it on the same line, tokens are taken from the left and
\* do not overlap, and a value put in is not searched again.
C10_ReplacePlaceholders ==
  rPc = "returned" =>
    /\ rOut = Substituted(rHtml, rData, TokenStarts(rHtml))
    /\ (\A p \in 1..Len(rHtml) : ~OpensAt(rHtml, p)) => rOut = rHtml
    /\ (\A p \in TokenStarts(rHtml) : TokenName(rHtml, p) \notin DOMAIN rData)
         => rOut = rHtml

\* "{{t}}}{{}}" with t = "X" came back as "X}{{}}": the known token replaced,
\* the text after it and the unknown token as they were
C10_Witness ==
  /\ rPc = "returned"
  /\ rHtml = <<"{", "{", "t", "}", "}", "}", "{", "{", "}", "}">>
  /\ rData = (<<"t">> :> <<"X">>)
  /\ rOut = <<"X", "}", "{", "{", "}", "}">>

-----------------------------------------------------------------------------
(* Formatting, the percentage, rounding *)

\* the symbol the currency table gives a code, whatever its case; none for a
\* code that is not in the table
TableSymbol(currency) ==
  IF \E k \in 1..Len(CURRENCIES) : CURRENCIES[k].code = ToLowerCase(currency.s)
  THEN CURRENCIES[CHOOSE k \in 1..Len(CURRENCIES) :
                    CURRENCIES[k].code = ToLowerCase(currency.s)].symbol
  ELSE <<>>

\* the symbol, then the amount with two decimals
SymbolAndAmount(value, currency) ==
  JSStr(TableSymbol(currency) \o ToFixed2(ParseFloat(value)))

\* C11 as stated: formatPrice returns the symbol found by case-insensitive
\* lookup in the currency table followed by the value with exactly 2
\* decimals, the value alone when the code is not in the table, and never
\* raises an error for a currency code of the front-matter.  Fails for a
\* currency that is a number (a TypeError: no toLowerCase) and for the code
\* "constructor" (an inherited property is taken for the symbol).
C11_AsStated ==
  /\ thrownBy \in {"calculateUnitTotals", "calculateInvoiceTotals"}
       => spinner.text # CurrencyTypeError
  /\ Passed("calculateUnitTotals") =>
       \A i \in 1..Len(tables) :
         /\ tables[i].priceHtml = SymbolAndAmount(filteredTable[i][ColPrice], params.currency)
         /\ tables[i].totalHtmlWithTax
              = SymbolAndAmount(tables[i].totalWithTax, params.currency)
  /\ Passed("calculateInvoiceTotals") =>
       totals.subtotalHtml = SymbolAndAmount(totals.subtotal, params.currency)

MaxAmount == 4

\* the arguments of a call: the fractions n/d up to MaxAmount in size, NaN,
\* the infinities, and what is no number (null, a string)
Amounts ==
  {JSNum(n, d) : n \in (0 - MaxAmount)..MaxAmount, d \in 1..3}
  \cup {JSNaN, JSInf(1), JSInf(-1), JSNull, JSStr(<<"a", "b", "c">>)}

InitPercentage ==
  /\ pc = "idle"
  /\ argv = Unset /\ templateFiles = Unset /\ spinner = Unset
  /\ data = Unset /\ args = Unset /\ params = Unset /\ table = Unset
  /\ filteredTable = Unset /\ tables = Unset /\ totals = Unset /\ html = Unset
  /\ rasterCalls = 0
  /\ exitCode = -1
  /\ thrownBy = "none"
  /\ jsonTables = Unset
  /\ rHtml = Unset /\ rData = Unset /\ rOut = Unset /\ rPc = "idle"
  /\ pValue \in Amounts
  /\ pPercent \in Amounts
  /\ pOut = Unset
  /\ pPc = "call"

\* utils.js 205-213: the call throws or returns
CallCalculatePercentage ==
  /\ pPc = "call"
  /\ IF calculatePercentageThrows(pValue, pPercent)
     THEN pPc' = "threw" /\ pOut' = PercentageError
     ELSE pPc' = "returned" /\ pOut' = calculatePercentage(pValue, pPercent)
  /\ UNCHANGED <<pValue, pPercent, pc, argv, templateFiles, spinner, data, args,
                 params, table, filteredTable, tables, totals, html, rasterCalls,
                 exitCode, thrownBy, jsonTables, replaceVars>>

NextPercentage == CallCalculatePercentage

SpecPercentage == InitPercentage /\ [][NextPercentage]_vars

\* a number, NaN apart
IsNumber(x) == x.t \in {"num", "inf"}

NearestInteger(x) ==
  IF x.t # "num" THEN x
  ELSE JSInt(CHOOSE k \in {x.n \div x.d, (x.n \div x.d) + 1} :
               /\ (2 * k - 1) * x.d <= 2 * x.n
               /\ 2 * x.n < (2 * k + 1) * x.d)

\* the number of hundredths nearest to the size of a finite number, the
\* larger of two equally near
NearestCents(x) ==
  CHOOSE c \in {(100 * Abs(x.n)) \div x.d, ((100 * Abs(x.n)) \div x.d) + 1} :
    /\ (2 * c - 1) * x.d <= 200 * Abs(x.n)
    /\ 200 * Abs(x.n) < (2 * c + 1) * x.d

\* an amount as displayed: the currency symbol, then the amount to the
\* nearest hundredth with two decimals ("NaN", "Infinity" when not finite)
Displayed(x, currency) ==
  JSStr(getCurrencySymbol(currency)
        \o (IF x.t = "nan" THEN <<"N", "a", "N">>
            ELSE IF x.t = "inf"
            THEN (IF x.n < 0 THEN <<"-">> ELSE <<>>) \o <<"I", "n", "f", "i", "n", "i", "t", "y">>
            ELSE (IF x.n < 0 THEN <<"-">> ELSE <<>>)
                 \o NatChars(NearestCents(x) \div 100)
                 \o <<".">>
                 \o <<DigitChar((NearestCents(x) % 100) \div 10),
                      DigitChar(NearestCents(x) % 10)>>))

\* C13: in the record calculateInvoiceTotals returns, only the displayed
\* total (totalHtml) is rounded to the nearest integer before it is
\* formatted; the numeric total is not rounded, and the displayed subtotal,
\* tax amount, fee amount and discount are their unrounded values formatted
\* with 2 decimals.
C13_OnlyTotalRounded ==
  Passed("calculateInvoiceTotals") =>
    /\ totals.totalHtml = Displayed(NearestInteger(totals.total), params.currency)
    /\ totals.total
         = NumSub(NumAdd(NumAdd(totals.subtotal, totals.taxAmt), totals.otherFeeAmt),
                  totals.discount)
    /\ totals.subtotalHtml = Displayed(totals.subtotal, params.currency)
    /\ totals.taxAmtHtml = Displayed(totals.taxAmt, params.currency)
    /\ totals.otherFeeAmtHtml = Displayed(totals.otherFeeAmt, params.currency)
    /\ totals.discountHtml = Displayed(totals.discount, params.currency)

\* a total of -1.44 is displayed as -1.00, next to a tax amount of 3.60 and
\* a fee amount of 0.96
C13_Witness ==
  /\ Passed("calculateInvoiceTotals")
  /\ totals.total = JSNum(-36, 25)
  /\ totals.totalHtml = JSStr(<<"U+00A3">> \o <<"-", "1", ".", "0", "0">>)
  /\ totals.taxAmtHtml = JSStr(<<"U+00A3">> \o <<"3", ".", "6", "0">>)
  /\ totals.otherFeeAmtHtml = JSStr(<<"U+00A3">> \o <<"0", ".", "9", "6">>)
  /\ totals.discountHtml = JSStr(<<"U+00A3">> \o <<"3", "0", ".", "0", "0">>)

ColNotes == <<"n", "o", "t", "e", "s">>

\* C14: every row validateAndFilterColumns returns has exactly the keys
\* item, price and qty, each with the value of that column of the input row
\* at the same place; the other columns of the input row are dropped without
\* an error, and the rows are as many as the input's, in its order.
C14_ExactlyThreeColumns ==
  Passed("validateAndFilterColumns") =>
    /\ DOMAIN filteredTable = DOMAIN table
    /\ \A i \in DOMAIN table :
         /\ DOMAIN filteredTable[i] = {ColItem, ColPrice, ColQty}
         /\ {ColItem, ColPrice, ColQty} \subseteq DOMAIN table[i]
         /\ filteredTable[i][ColItem] = table[i][ColItem]
         /\ filteredTable[i][ColPrice] = table[i][ColPrice]
         /\ filteredTable[i][ColQty] = table[i][ColQty]

\* a second row with a Notes column came back without it, after the first
\* row and with its own cells
C14_Witness ==
  /\ Passed("validateAndFilterColumns")
  /\ Len(table) = 2
  /\ ColNotes \notin DOMAIN table[1]
  /\ ColNotes \in DOMAIN table[2]
  /\ table[1][ColPrice] # table[2][ColPrice]
  /\ Len(filteredTable) = 2
  /\ ColNotes \notin DOMAIN filteredTable[2]
  /\ filteredTable[2][ColPrice] = table[2][ColPrice]

-----------------------------------------------------------------------------
(* The sample document, end to end *)

SamplePrices == <<10, 15, 20, 12, 8, 25>>

SampleQtys == <<2, 3, 2, 4, 3, 1>>

\* the run reads the sample: its front-matter, its six rows
IsSample ==
  /\ data = WithKeys(SampleData)
  /\ Passed("parseTable")
  /\ Len(table) = Len(SamplePrices)
  /\ \A i \in 1..Len(table) :
       /\ ParseFloat(table[i][ColPrice]) = JSInt(SamplePrices[i])
       /\ table[i][ColQty] = JSStr(NatChars(SampleQtys[i]))

\* the sum of qty * price * 1.20 over the first k rows, in fifths
SampleFifths[k \in 0..Len(SamplePrices)] ==
  IF k = 0 THEN 0 ELSE SampleFifths[k - 1] + SampleQtys[k] * SamplePrices[k] * 6

\* the amounts the sample comes to
SampleSubtotal == JSNum(SampleFifths[Len(SamplePrices)], 5)

SampleTaxAmt == NumDivInt(NumMul(SampleSubtotal, JSInt(15)), 100)

SampleFeeAmt == NumDivInt(NumMul(SampleSubtotal, JSInt(4)), 100)

SampleTotal ==
  NumSub(NumAdd(NumAdd(SampleSubtotal, SampleTaxAmt), SampleFeeAmt), JSInt(30))

\* C15: for the sample document the run computes subtotal = the sum of
\* qty*price*1.20 over the six rows, taxAmt = 15% and otherFeeAmt = 4% of that
\* subtotal, total = subtotal + taxAmt + otherFeeAmt - 30, and displays the
\* total alone rounded to an integer, with the pound sign; no step before the
\* rasterizer fails.
C15_SampleDocument ==
  IsSample =>
    /\ thrownBy \in {"none", "await"}
    /\ Passed("calculateUnitTotals") =>
         \A i \in 1..Len(tables) :
           tables[i].totalWithTax = JSNum(SampleQtys[i] * SamplePrices[i] * 6, 5)
    /\ Passed("calculateInvoiceTotals") =>
         /\ totals.subtotal = SampleSubtotal
         /\ totals.taxAmt = SampleTaxAmt
         /\ totals.otherFeeAmt = SampleFeeAmt
         /\ totals.total = SampleTotal
         /\ totals.totalHtml = JSStr(<<"U+00A3">> \o <<"2", "5", "8", ".", "0", "0">>)
         /\ totals.subtotalHtml = JSStr(<<"U+00A3">> \o <<"2", "4", "2", ".", "4", "0">>)
         /\ totals.taxAmtHtml = JSStr(<<"U+00A3">> \o <<"3", "6", ".", "3", "6">>)
         /\ totals.otherFeeAmtHtml = JSStr(<<"U+00A3">> \o <<"9", ".", "7", "0">>)
         /\ totals.discountHtml = JSStr(<<"U+00A3">> \o <<"3", "0", ".", "0", "0">>)

\* the sample's totals are there: 242.4, 36.36, 9.696 and 258.456, shown as 258.00
C15_Witness ==
  /\ IsSample
  /\ Passed("calculateInvoiceTotals")
  /\ totals.subtotal = JSNum(1212, 5)
  /\ totals.taxAmt = JSNum(909, 25)
  /\ totals.otherFeeAmt = JSNum(1212, 125)
  /\ totals.total = JSNum(32307, 125)
  /\ totals.totalHtml = JSStr(<<"U+00A3">> \o <<"2", "5", "8", ".", "0", "0">>)


-----------------------------------------------------------------------------
(* The organizers of the front-matter *)

\* the developer, client and title keys of the front-matter, each with the
\* name of its argument
TextKeys ==
  << <<"devName", <<"d", "e", "v", "N", "a", "m", "e">>>>, <<"devEmail", <<"d", "e", "v", "E", "m", "a", "i", "l">>>>,
     <<"devSkype", <<"d", "e", "v", "S", "k", "y", "p", "e">>>>, <<"devTwitter", <<"d", "e", "v", "T", "w", "i", "t", "t", "e", "r">>>>,
     <<"devWebsite", <<"d", "e", "v", "W", "e", "b", "s", "i", "t", "e">>>>, <<"devLocation", <<"d", "e", "v", "L", "o", "c", "a", "t", "i", "o", "n">>>>,
     <<"clientName", <<"c", "l", "i", "e", "n", "t", "N", "a", "m", "e">>>>, <<"clientCompany", <<"c", "l", "i", "e", "n", "t", "C", "o", "m", "p", "a", "n", "y">>>>,
     <<"clientLocation", <<"c", "l", "i", "e", "n", "t", "L", "o", "c", "a", "t", "i", "o", "n">>>>, <<"clientEmail", <<"c", "l", "i", "e", "n", "t", "E", "m", "a", "i", "l">>>>,
     <<"title", <<"t", "i", "t", "l", "e">>>> >>

FinancialKeys == {"serviceTax", "tax", "otherFee", "discount"}

\* a value that is not undefined, null, NaN, 0 or the empty string
Truthy(v) ==
  ~ \/ v.t \in {"undefined", "null", "nan"}
    \/ v.t = "num" /\ v.n = 0
    \/ v.t = "str" /\ v.s = <<>>

\* a front-matter value as the text a template shows
AsText(v) ==
  IF v.t = "str" THEN v.s
  ELSE IF v.t = "null" THEN <<"n", "u", "l", "l">>
  ELSE NumberToString(v)

IsEmptyString(v) == v.t = "str" /\ v.s = <<>>

-----------------------------------------------------------------------------
(* The one error of the table extraction *)

NoTableError ==
  Text("Please provide an estimate table in the markdown content.")

\* the error is a line per invalid cell and nothing else
CellErrorsOnly ==
  /\ Len(spinner.text) > 0
  /\ \A k \in 1..Len(spinner.text) :
       /\ spinner.text[k].text \in {"Invalid Price", "Invalid Qty"}
       /\ spinner.text[k].index \in 1..Len(table)

\* the error is one line that names a column
ColumnErrorOnly ==
  /\ Len(spinner.text) = 1
  /\ spinner.text[1].text = "Missing expected column"

\* the rows of the parsed table with a price or quantity the validators
\* reject
RejectedRows ==
  {i \in 1..Len(table) :
     \/ /\ ColPrice \in DOMAIN table[i]
        /\ ~validatePrice(table[i][ColPrice])
     \/ /\ ColQty \in DOMAIN table[i]
        /\ ~validateQty(table[i][ColQty])}

\* C17: the table extraction reports one kind of error, in a fixed order:
\* the no-table error when the document has no table; otherwise the
\* missing-column error, one line naming the first column the first
\* deficient row lacks, whatever the cells hold; the lines of invalid prices
\* and quantities only when the table exists and every row has the three
\* columns.
C17_OneKindOfError ==
  /\ Ran("parseTable") =>
       IF Len(jsonTables) = 0
       THEN thrownBy = "parseTable" /\ spinner.text = NoTableError
       ELSE thrownBy # "parseTable"
  /\ (Ran("validateAndFilterColumns") /\ DeficientRows # {}) =>
       /\ thrownBy = "validateAndFilterColumns"
       /\ ColumnErrorOnly
       /\ spinner.text[1].arg = MissingColumns(table[FirstDeficientRow])[1]
  /\ (Ran("validateAndFilterColumns") /\ DeficientRows = {}) =>
       thrownBy # "validateAndFilterColumns"
  /\ Ran("validateDataRows") =>
       IF RejectedRows # {}
       THEN thrownBy = "validateDataRows" /\ CellErrorsOnly
       ELSE thrownBy # "validateDataRows"
  /\ thrownBy = "validateDataRows" => (Len(jsonTables) > 0 /\ DeficientRows = {})
  /\ thrownBy \in {"parseTable", "validateAndFilterColumns", "validateDataRows"} =>
       /\ filteredTable = Unset \/ thrownBy = "validateDataRows"
       /\ tables = Unset
       /\ rasterCalls = 0

\* a first row with an invalid price and an invalid quantity, a second row
\* with an invalid price and no qty column: the error names qty and no cell
C17_Witness ==
  /\ thrownBy = "validateAndFilterColumns"
  /\ Len(table) = 2
  /\ DeficientRows = {2}
  /\ RejectedRows = {1, 2}
  /\ spinner.text = <<MsgLine("Missing expected column", 0, ColQty)>>

-----------------------------------------------------------------------------
(* The keys of the replacement arguments *)

\* the keys getReplacementArgs returns
ArgumentKeys ==
  { <<"d", "e", "v", "N", "a", "m", "e">>, <<"d", "e", "v", "E", "m", "a", "i", "l">>, <<"d", "e", "v", "S", "k", "y", "p", "e">>, <<"d", "e", "v", "T", "w", "i", "t", "t", "e", "r">>, <<"d", "e", "v", "W", "e", "b", "s", "i", "t", "e">>,
    <<"d", "e", "v", "L", "o", "c", "a", "t", "i", "o", "n">>, <<"c", "l", "i", "e", "n", "t", "N", "a", "m", "e">>, <<"c", "l", "i", "e", "n", "t", "C", "o", "m", "p", "a", "n", "y">>, <<"c", "l", "i", "e", "n", "t", "L", "o", "c", "a", "t", "i", "o", "n">>,
    <<"c", "l", "i", "e", "n", "t", "E", "m", "a", "i", "l">>, <<"t", "i", "t", "l", "e">>, <<"d", "e", "s", "c", "r", "i", "p", "t", "i", "o", "n">>, <<"n", "o", "t", "e", "s">>, <<"d", "a", "t", "e">>,
    <<"b", "o", "d", "y", "S", "t", "y", "l", "e">>, <<"t", "a", "b", "l", "e", "B", "o", "d", "y">>, <<"t", "a", "b", "l", "e", "F", "o", "o", "t">>, <<"t", "o", "t", "a", "l", "P", "r", "i", "c", "e">> }

\* the keys of the front-matter the organizers read
RecognizedKeys ==
  { "devName", "devEmail", "devSkype", "devTwitter", "devWebsite", "devLocation",
    "clientName", "clientCompany", "clientLocation", "clientEmail",
    "title", "description", "notes", "date",
    "serviceTax", "tax", "otherFee", "discount", "currency" }

\* the document without its unrecognized keys
Recognized(d) == [k \in (DOMAIN d) \cap RecognizedKeys |-> d[k]]

UnknownPlaceholder == <<"{", "{", "u", "n", "k", "n", "o", "w", "n", "F", "i", "e", "l", "d", "}", "}">>

\* the template's placeholder of unknownField stands in the output as it was
UnknownLeftVerbatim ==
  /\ Len(html) > Len(UnknownPlaceholder)
  /\ SubSeq(html, Len(html) - Len(UnknownPlaceholder), Len(html) - 1)
       = UnknownPlaceholder

\* C18: the keys of the record getReplacementArgs returns are fixed (the
\* developer, client and project fields, bodyStyle, tableBody, tableFoot and
\* totalPrice) whatever keys the front-matter has; the arguments, the
\* parameters and the output of a document are those of the same document
\* without its unrecognized keys; a placeholder named like an unrecognized
\* key is left as it stands.
C18_FixedKeys ==
  /\ Passed("matter") =>
       /\ DOMAIN args \subseteq ArgumentKeys
       /\ \A k \in DOMAIN ContentArgs(Recognized(data)) :
            k \in DOMAIN args /\ args[k] = ContentArgs(Recognized(data))[k]
  /\ Passed("extractInvoiceData") => params = InvoiceParams(Recognized(data))
  /\ Passed("organizeInvoiceInfo") =>
       /\ DOMAIN args = ArgumentKeys
       /\ args = InvoiceArgs(tables, totals) @@ ContentArgs(Recognized(data))
  /\ Passed("replacePlaceholders") =>
       /\ html = replacePlaceholders(HtmlTemplate,
                   InvoiceArgs(tables, totals) @@ ContentArgs(Recognized(data)))
       /\ UnknownLeftVerbatim

\* the sample with unknownField: U: the output ends with the placeholder as
\* it was, and the arguments have the fixed keys
C18_Witness ==
  /\ Passed("replacePlaceholders")
  /\ "unknownField" \in DOMAIN data
  /\ data["unknownField"] = JSStr(<<"U">>)
  /\ DOMAIN args = ArgumentKeys
  /\ UnknownLeftVerbatim
  /\ Len(tables) = 2

-----------------------------------------------------------------------------
(* The quantity validated and the quantity used *)

\* the integer validateQty obtained from the quantity cell of row i
ValidatedQty(i) == cleanNumber(filteredTable[i][ColQty])

\* C19 as stated: for every row that passes validateDataRows, the quantity
\* used in total = qty * price and in totalWithTax = qty * priceWithTax is
\* the integer validateQty obtained from the cell.  Fails for the quantity
\* cells 2.5 and 2abc: validateQty accepts them as the integer 2, the totals
\* are computed with the cell itself, 2.5 and NaN.
C19_AsStated ==
  Passed("calculateUnitTotals") =>
    \A i \in 1..Len(tables) :
      /\ ValidatedQty(i).t = "num"
      /\ ValidatedQty(i).d = 1
      /\ tables[i].total = JSMul(ValidatedQty(i), tables[i].price)
      /\ tables[i].totalWithTax = JSMul(ValidatedQty(i), tables[i].priceWithTax)

-----------------------------------------------------------------------------
(* The totals of a validated table *)

\* a number other than NaN
NonNaNNumber(x) == x.t \in {"num", "inf"}

\* C20 as stated: for every table that passes both validations and every
\* resolved parameter set, calculateUnitTotals and then
\* calculateInvoiceTotals complete without the error of the percentage
\* calculation, and subtotal, taxAmt, otherFeeAmt and total are numbers, none
\* of them NaN.  Fails for a price of Infinity with a quantity of 0 and for a
\* quantity of 2abc (the subtotal is NaN and the percentage throws), and for
\* a tax of Infinity on a subtotal of 0 (taxAmt is NaN).
C20_AsStated ==
  Passed("validateDataRows") =>
    /\ thrownBy \in {"calculateUnitTotals", "calculateInvoiceTotals"}
         => spinner.text # PercentageError
    /\ Passed("calculateInvoiceTotals") =>
         /\ NonNaNNumber(totals.subtotal)
         /\ NonNaNNumber(totals.taxAmt)
         /\ NonNaNNumber(totals.otherFeeAmt)
         /\ NonNaNNumber(totals.total)
=============================================================================
